---- MODULE Spec2Model ----
(***************************************************************************)
(* A model of larryhou/unityab: the byte stream (stream.py), the type-tree *)
(* decoder, the type-tree registrar and the generic deserializer           *)
(* (serialize.py) and the command pipeline (unity.py).                     *)
(*                                                                         *)
(* Indices are 0-based as in the Python source; a Python list is a TLA+    *)
(* sequence and list[i] is written At(list, i).  A TypeField object is     *)
(* identified by its position in type_tree.nodes, so a class view's field  *)
(* list is a sequence of node positions.                                   *)
(***************************************************************************)
EXTENDS Integers, Sequences, FiniteSets, TLC

VARIABLES
    pc,         \* control location of the operation in progress
    nodes,      \* type_tree.nodes
    ri,         \* position of the `for node in type_tree.nodes` iterator
    walker,     \* register_type_tree: stack of (parent, [children]) frames
    cursor,     \* register_type_tree: previous node (None before the first)
    type_dict,  \* type_tree.type_dict: the class views, keyed by view.index
    data,       \* FileStream: the bytes of the underlying buffer
    fs,         \* FileStream: position, length, endian, read limit and count
    tt,         \* __decode_type_tree: node_count, char_count, type_index,
                \* strings, string_offset, string_size and type_tree.name
    type_trees, \* SerializedFile.type_trees
    stack,      \* deserialize: the frames of the calls in progress
    last,       \* deserialize: the field the last step finished
    ret,        \* deserialize: what the outermost call returned
    run,        \* dump / save: the command, its loop and current object
    out,        \* FileStream: the last call made on the stream and its result
    main,       \* unity.py main: the archive, its directory and the node loop
    th,         \* MetadataTypeTree.decode: the type header and the cache file
    ar          \* UnityArchiveFile.decode: the archive being decoded

vars == <<pc, nodes, ri, walker, cursor, type_dict, data, fs, tt,
          type_trees, stack, last, ret, run, out, main, th, ar>>

mainVars == <<out, main>>

auxVars == <<th, ar>>

desVars == <<type_trees, stack, last, ret, run>>

regVars == <<nodes, ri, walker, cursor, type_dict>>

streamVars == <<data, fs>>

----------------------------------------------------------------------------
(* Bounds of the model *)

MaxNodes == 4      \* longest field list given to the registrar
MaxLevel == 2      \* deepest level a field of such a list may claim
MaxTreeNodes == 2  \* largest node_count of an encoded type tree
MaxChars == 3      \* largest char_count of an encoded type tree
MaxFields == 2     \* most fields (each with its subtree) under a root
MaxAvail == 12     \* most bytes between the start position and the end
MaxCount == 2      \* largest count / length an s32 read yields
MaxObjects == 2    \* most objects of an object table
MaxLength == 5     \* most bytes of a stream that is read call by call
MaxReadCount == 6  \* largest magnitude of the stream's read counter
MaxFileNodes == 2  \* most nodes of an archive's directory
MaxBlocks == 2     \* most storage blocks of an archive

----------------------------------------------------------------------------
(* Python helpers *)

None == -1

At(list, i) == list[i + 1]

Last(list) == list[Len(list)]

ButLast(list) == SubSeq(list, 1, Len(list) - 1)

Range(s) == {s[i] : i \in 1..Len(s)}

SeqsUpTo(S, n) == UNION {[1..k -> S] : k \in 0..n}

\* Op(v), with v evaluated once before Op is applied to it
Let(v, Op(_)) == CHOOSE y \in {Op(x) : x \in {v}} : TRUE

----------------------------------------------------------------------------
(* stream.py: FileStream *)

\* FileStream.__init__ over a buffer of n bytes: endian '>', no read limit
FileStream(n) ==
    [position |-> 0, length |-> n, endian |-> ">",
     read_limit |-> 0, read_count |-> 0]

Min(a, b) == IF a < b THEN a ELSE b

\* what io.BytesIO.read(n) returns at the current position: at most n bytes,
\* all the rest for n < 0, nothing at or beyond the end
BufferRead(f, n) ==
    LET rest == IF f.position >= f.length THEN 0 ELSE f.length - f.position
    IN  IF n < 0 THEN rest ELSE Min(n, rest)

\* FileStream.read(n): [fs, got, err], got the number of bytes returned
FsRead(f, n) ==
    LET counted == [f EXCEPT !.read_count = @ + n]
        got == BufferRead(f, n)
    IN  IF 0 < f.read_limit /\ f.read_limit <= counted.read_count
        THEN [fs |-> counted, got |-> 0, err |-> TRUE]
        ELSE IF got = 0
        THEN [fs |-> counted, got |-> 0, err |-> TRUE]
        ELSE [fs |-> [counted EXCEPT !.position = @ + got],
              got |-> got, err |-> FALSE]

\* self.__buffer.read(1), used by read_boolean and read_sint8 directly
FsBufferRead1(f) ==
    LET got == BufferRead(f, 1)
    IN  [fs |-> [f EXCEPT !.position = @ + got], got |-> got, err |-> got = 0]

\* FileStream.seek(offset, os.SEEK_SET)
FsSeek(f, offset) == [f EXCEPT !.position = offset]

\* FileStream.align(size)
FsAlign(f, size) ==
    LET mode == f.position % size
    IN  IF mode > 0 THEN [f EXCEPT !.position = @ + (size - mode)] ELSE f

\* the bytes a read of `got` bytes at `position` returned
Bytes(d, position, got) == SubSeq(d, position + 1, position + got)

----------------------------------------------------------------------------
(* struct.pack / struct.unpack in the stream's endian *)

RECURSIVE Pow256(_)
Pow256(i) == IF i = 0 THEN 1 ELSE 256 * Pow256(i - 1)

Reverse(s) == [i \in 1..Len(s) |-> s[Len(s) + 1 - i]]

\* little-endian two's-complement bytes of v (the model's values fit four
\* bytes; the bytes above them extend the sign)
PackLE(v, w) ==
    [i \in 1..w |-> IF i <= 4 THEN (v \div Pow256(i - 1)) % 256
                    ELSE IF v < 0 THEN 255 ELSE 0]

Pack(v, w, endian) ==
    IF endian = "<" THEN PackLE(v, w) ELSE Reverse(PackLE(v, w))

\* the number whose big-endian bytes follow the accumulated prefix
RECURSIVE UnpackBE(_, _)
UnpackBE(acc, b) ==
    IF b = <<>> THEN acc ELSE UnpackBE(acc * 256 + Head(b), Tail(b))

Unpack(b, endian, signed) ==
    LET be == IF endian = "<" THEN Reverse(b) ELSE b
        top == IF signed /\ be[1] >= 128 THEN be[1] - 256 ELSE be[1]
    IN  UnpackBE(top, Tail(be))

Width(t) ==
    CASE t \in {"bool", "s8", "u8"} -> 1
      [] t \in {"s16", "u16"} -> 2
      [] t \in {"s32", "u32", "f32"} -> 4
      [] t \in {"s64", "u64", "f64"} -> 8

Signed(t) == t \in {"s8", "s16", "s32", "s64"}

\* the stream after FileStream.read_<t>(): [fs, got, err].  struct.unpack
\* fails on a short read; read_boolean and read_sint8 bypass
\* FileStream.read.
TypedRead(f, t) ==
    LET r == IF t \in {"bool", "s8"} THEN FsBufferRead1(f)
             ELSE FsRead(f, Width(t))
    IN  [fs |-> r.fs, got |-> r.got, err |-> r.err \/ r.got < Width(t)]

\* FileStream.read_<t>() over the bytes d: [fs, val, err]
ReadTyped(f, d, t) ==
    Let(TypedRead(f, t), LAMBDA r :
        IF r.err
        THEN [fs |-> r.fs, val |-> 0, err |-> TRUE]
        ELSE [fs |-> r.fs, err |-> FALSE,
              val |-> IF t = "bool"
                      THEN (IF d[f.position + 1] # 0 THEN 1 ELSE 0)
                      ELSE Unpack(Bytes(d, f.position, r.got), f.endian,
                                  Signed(t))])

\* typed reads one after another; stops at the first that fails
RECURSIVE ReadManyFrom(_, _, _, _)
ReadManyFrom(f, d, ts, vals) ==
    IF ts = <<>> THEN [fs |-> f, vals |-> vals, err |-> FALSE]
    ELSE Let(ReadTyped(f, d, Head(ts)), LAMBDA r :
             IF r.err THEN [fs |-> r.fs, vals |-> vals, err |-> TRUE]
             ELSE ReadManyFrom(r.fs, d, Tail(ts), Append(vals, r.val)))

ReadMany(f, d, ts) == ReadManyFrom(f, d, ts, <<>>)

\* what read_string returns for the bytes before the terminator: None for
\* no bytes, else the decoded text (the model's bytes are ASCII, which
\* utf-8 decodes to the same code points)
NoneStr == <<None>>

\* Mutant: no bytes decode to the empty string.
DecodeUtf8_Empty(b) == b

\* return None if not string else string.decode(encoding=encoding)
DecodeUtf8(b) == IF b = <<>> THEN NoneStr ELSE b

\* FileStream.read_string() with length 0: read(1) until a 0 byte
RECURSIVE ReadCString(_, _, _)
ReadCString(f, d, acc) ==
    Let(FsRead(f, 1), LAMBDA r :
        IF r.err THEN [fs |-> r.fs, val |-> NoneStr, err |-> TRUE]
        ELSE IF d[r.fs.position] = 0
        THEN [fs |-> r.fs, val |-> DecodeUtf8(acc), err |-> FALSE]
        ELSE ReadCString(r.fs, d, Append(acc, d[r.fs.position])))

ReadString(f, d) == ReadCString(f, d, <<>>)

\* a specification that uses no stream
NoStream == data = <<>> /\ fs = FileStream(0)

----------------------------------------------------------------------------
(* serialize.py: the state of deserialize, dump and save before they run *)

\* The values deserialize builds.  kind "prim": a decoded scalar; "bytes":
\* n bytes; "list": the items in data; "map": a dict, its entries
\* [key, val] in data in insertion order; "array": the record of an array
\* field, n its 'size' entry, has whether it has a 'data' entry, data the
\* one payload.
Value(kind, n, has, d) == [kind |-> kind, n |-> n, has |-> has, data |-> d]

NoneVal == Value("none", 0, FALSE, <<>>)

\* what the last step finished: an "array", "string", "prim", "zero" or
\* "composite" field, the node at position `node` of tree `tree`; count is
\* the s32 that was read and elem the position of the element descriptor
Event(kind, tree, node, count, elem) ==
    [kind |-> kind, tree |-> tree, node |-> node, count |-> count,
     elem |-> elem]

NoEvent == Event("none", None, None, 0, None)

\* no deserialization in progress
NoObject == [byte_start |-> 0, byte_size |-> 0, type_id |-> 0]

\* cmd: options.command; base: node.offset + header.data_offset; o: the
\* object of the current iteration; done: the iterations begun; offset:
\* the position at which deserialization of o began; completed: the last
\* iteration deserialized o and reached its end
NoRun == [cmd |-> "none", base |-> 0, o |-> NoObject, done |-> 0,
          offset |-> 0, completed |-> FALSE]

\* no call has been made on the stream: op is the method, n its argument,
\* before the stream when it was called, got the bytes it returned
NoCall == [op |-> "none", n |-> 0, before |-> FileStream(0), got |-> <<>>,
           err |-> FALSE]

\* FileNode.__init__
FileNode == [offset |-> 0, size |-> 0, flags |-> 0]

\* main before it runs.  raw: the bytes of the file; logical and dir: the
\* stream and the directory that the archive's blocks decode to; archive:
\* ArchiveStorageHeader; nodes: archive.direcory_info.nodes; k: the
\* position of the node loop; node: the loop's node; header, platform and
\* plain: the serialized file being decoded; files: the offset, the
\* endianess and the platform of each serialized file decoded so far
NoMainState ==
    [raw |-> <<>>, logical |-> <<>>, dir |-> <<>>,
     archive |-> [version |-> 0, size |-> 0,
                  compressed_blocks_info_size |-> 0,
                  uncompressed_blocks_info_size |-> 0, flags |-> 0,
                  header_size |-> 0, decoded |-> FALSE],
     nodes |-> <<>>, k |-> 0, node |-> FileNode, plain |-> FALSE,
     header |-> [metadata_size |-> 0, file_size |-> 0, version |-> 0,
                 data_offset |-> 0, endianess |-> 0],
     platform |-> 0, files |-> <<>>]

NoMain == out = NoCall /\ main = NoMainState

\* MetadataTypeTree.__init__, and the decode call before it runs.  offset:
\* fs.position on entry; header_end: the position after type_hash;
\* enabled: type_tree_enabled; cache, cache_exists: the bytes of the type
\* cache file and whether it exists; handles: the files that are open
NoTypeHeader ==
    [offset |-> 0, persistent_type_id |-> -1, is_stripped_type |-> 0,
     script_type_index |-> -1, script_type_hash |-> <<>>, type_hash |-> <<>>,
     header_end |-> 0, enabled |-> FALSE, cache |-> <<>>,
     cache_exists |-> FALSE, handles |-> {}]

\* UnityArchiveFile.__init__, and the decode call before it runs.  header:
\* ArchiveStorageHeader; blocks: blocks_info.blocks; nodes:
\* direcory_info.nodes; k: the blocks read so far; buffer: the logical
\* bytes written so far; decompressed: the calls of lz4.block.decompress;
\* handles: the files that are open; input: what the file was made from
NoArchive ==
    [header |-> [version |-> 0, size |-> 0,
                 compressed_blocks_info_size |-> 0,
                 uncompressed_blocks_info_size |-> 0, flags |-> 0,
                 header_size |-> 0, decoded |-> FALSE],
     blocks |-> <<>>, nodes |-> <<>>, k |-> 0, buffer |-> <<>>,
     decompressed |-> 0, handles |-> {},
     input |-> [signature |-> <<>>, version |-> 0, compression |-> 0,
                wellformed |-> FALSE]]

NoAux == th = NoTypeHeader /\ ar = NoArchive

NoDeserialize ==
    /\ type_trees = <<>>
    /\ stack = <<>>
    /\ last = NoEvent
    /\ ret = NoneVal
    /\ run = NoRun

----------------------------------------------------------------------------
(* serialize.py: TypeField and MetadataType *)

\* TypeField.__init__
TypeField ==
    [version |-> 0, level |-> 0, is_array |-> FALSE,
     type |-> "", type_str_offset |-> 0, name |-> "", name_str_offset |-> 0,
     byte_size |-> 0, index |-> -1, meta_flags |-> 0]

\* MetadataType(name=t.type, index=t.index, fields=fields): t is the
\* position of the parent node.
MetadataType(ns, t, fields) ==
    [name |-> At(ns, t).type, index |-> At(ns, t).index, fields |-> fields]

\* type_tree.type_dict[meta_type.index] = meta_type
DictPut(dict, view) == {v \in dict : v.index # view.index} \cup {view}

DictHas(dict, key) == \E v \in dict : v.index = key

\* type_dict.get(key); only used where DictHas(dict, key)
DictGet(dict, key) == CHOOSE v \in dict : v.index = key

----------------------------------------------------------------------------
(* serialize.py: SerializedFile.register_type_tree *)

RegState(w, c, d, e) == [walker |-> w, cursor |-> c, type_dict |-> d, error |-> e]

RegStart == RegState(<<>>, None, {}, FALSE)

\* Mutant: the popped frame is dropped instead of being registered.
PopFrame_NoRegister(ns, st) ==
    IF st.walker = <<>>
    THEN [st EXCEPT !.error = TRUE]
    ELSE [st EXCEPT !.walker = ButLast(st.walker)]

\* t, fields = walker.pop(); type_dict[...] = MetadataType(...)
\* (IndexError when the walker is empty)
PopFrame(ns, st) ==
    IF st.walker = <<>>
    THEN [st EXCEPT !.error = TRUE]
    ELSE LET f == Last(st.walker)
         IN  [st EXCEPT !.walker = ButLast(st.walker),
                        !.type_dict = DictPut(st.type_dict,
                                              MetadataType(ns, f.t, f.fields))]

\* for _ in range(k): pop and register
RECURSIVE PopFrames(_, _, _)
PopFrames(ns, st, k) ==
    IF k <= 0 \/ st.error THEN st
    ELSE PopFrames(ns, PopFrame(ns, st), k - 1)

\* _, fields = walker[-1]; fields.append(node)
\* (IndexError when the walker is empty)
AppendToTop(st, i) ==
    IF st.error THEN st
    ELSE IF st.walker = <<>>
    THEN [st EXCEPT !.error = TRUE]
    ELSE LET n == Len(st.walker)
         IN  [st EXCEPT !.walker[n].fields = Append(@, i)]

\* Mutant: a field that closes deeper levels is appended to the innermost
\* open frame, which is never popped.
RegNode_NoPop(ns, st, i) ==
    LET node == At(ns, i)
        step ==
          IF st.cursor = None THEN st
          ELSE LET cur == At(ns, st.cursor)
               IN  IF cur.level < node.level
                   THEN [st EXCEPT !.walker =
                            Append(@, [t |-> st.cursor, fields |-> <<i>>])]
                   ELSE AppendToTop(st, i)
    IN  IF step.error THEN step ELSE [step EXCEPT !.cursor = i]

\* One iteration of `for node in type_tree.nodes`, node at position i.
RegNode(ns, st, i) ==
    LET node == At(ns, i)
        step ==
          IF st.cursor = None THEN st
          ELSE LET cur == At(ns, st.cursor)
               IN  IF cur.level = node.level
                   THEN AppendToTop(st, i)
                   ELSE IF cur.level < node.level
                   THEN [st EXCEPT !.walker =
                            Append(@, [t |-> st.cursor, fields |-> <<i>>])]
                   ELSE AppendToTop(
                            PopFrames(ns, st, cur.level - node.level), i)
    IN  IF step.error THEN step ELSE [step EXCEPT !.cursor = i]

RECURSIVE RegLoop(_, _, _)
RegLoop(ns, st, i) ==
    IF i >= Len(ns) \/ st.error THEN st
    ELSE RegLoop(ns, RegNode(ns, st, i), i + 1)

\* The whole call: the loop, then `while walker:` drains the stack.
RegisterTypeTree(ns) ==
    LET st == RegLoop(ns, RegStart, 0)
    IN  IF st.error THEN st ELSE PopFrames(ns, st, Len(st.walker))

----------------------------------------------------------------------------
(* serialize.py: TypeField.decode and MetadataTypeTree.__decode_type_tree *)

\* the locals and results of __decode_type_tree before it runs
NoTypeTreeDecode ==
    [node_count |-> 0, char_count |-> 0, type_index |-> -1, strings |-> <<>>,
     string_offset |-> 0, string_size |-> 0, name |-> ""]

\* the wire form of a TypeField, 24 bytes
EncodeField(n, e) ==
    Pack(n.version, 2, e) \o <<n.level>> \o <<IF n.is_array THEN 1 ELSE 0>>
    \o Pack(n.type_str_offset, 4, e) \o Pack(n.name_str_offset, 4, e)
    \o Pack(n.byte_size, 4, e) \o Pack(n.index, 4, e)
    \o Pack(n.meta_flags, 4, e)

RECURSIVE EncodeFields(_, _)
EncodeFields(ns, e) ==
    IF ns = <<>> THEN <<>>
    ELSE EncodeField(Head(ns), e) \o EncodeFields(Tail(ns), e)

\* the wire form of a type-tree body: counts, nodes, string region
EncodeTypeTree(ns, char_count, region, e) ==
    Pack(Len(ns), 4, e) \o Pack(char_count, 4, e) \o EncodeFields(ns, e)
    \o region

\* TypeField.decode(fs): [fs, node, err]
DecodeTypeField(f, d) ==
    Let(ReadMany(f, d, <<"s16", "u8", "bool", "u32", "u32",
                          "s32", "s32", "u32">>), LAMBDA r :
        IF r.err THEN [fs |-> r.fs, node |-> TypeField, err |-> TRUE]
        ELSE [fs |-> r.fs, err |-> FALSE,
              node |-> [TypeField EXCEPT
                          !.version = r.vals[1], !.level = r.vals[2],
                          !.is_array = (r.vals[3] # 0),
                          !.type_str_offset = r.vals[4],
                          !.name_str_offset = r.vals[5],
                          !.byte_size = r.vals[6], !.index = r.vals[7],
                          !.meta_flags = r.vals[8]]])

\* if type_index >= 0: assert node.index == type_index + 1
IndexAccepted(type_index, index) ==
    type_index >= 0 => index = type_index + 1

\* self.strings[offset] = value
StrPut(strings, offset, value) ==
    IF \E i \in 1..Len(strings) : strings[i].key = offset
    THEN [i \in 1..Len(strings) |->
            IF strings[i].key = offset
            THEN [key |-> offset, val |-> value] ELSE strings[i]]
    ELSE Append(strings, [key |-> offset, val |-> value])

StrHas(strings, offset) == \E i \in 1..Len(strings) : strings[i].key = offset

StrGet(strings, offset) ==
    LET i == CHOOSE j \in 1..Len(strings) : strings[j].key = offset
    IN  strings[i].val

\* while string_size + 1 < char_count
StringLoopContinues(string_size, char_count) == string_size + 1 < char_count

\* Mutant: one byte of trailing padding is tolerated.
StringRegionAccepted_Padding(position, string_offset, char_count) ==
    position - string_offset \in {char_count - 1, char_count}

\* assert fs.position - string_offset == char_count
StringRegionAccepted(position, string_offset, char_count) ==
    position - string_offset = char_count

\* the name for a string offset, looked up among the strings read from
\* the tree's own region (the offsets of the model stay below the high
\* bit that selects the built-in table)
GetCaculateString(offset, strings) ==
    IF StrHas(strings, offset) THEN StrGet(strings, offset) ELSE NoneStr

\* every offset the nodes use can be resolved
Resolvable(ns, strings) ==
    \A i \in 1..Len(ns) :
        \A off \in {ns[i].type_str_offset, ns[i].name_str_offset} :
            StrHas(strings, off)

----------------------------------------------------------------------------
(* Encoded type trees given to __decode_type_tree *)

Endians == {"<", ">"}

RegionBytes == {0, 65}

TreeField(i, index) ==
    [TypeField EXCEPT !.version = 1, !.level = IF i = 1 THEN 0 ELSE 1,
                      !.index = index]

\* the list of k fields with the indexes ix
TreeNodeList(k, ix) == [i \in 1..k |-> TreeField(i, ix[i])]

InitTypeTree ==
    /\ pc = "tt_counts"
    /\ nodes = <<>>
    /\ \E e \in Endians, k \in 0..MaxTreeNodes, cc \in 0..MaxChars,
          region \in SeqsUpTo(RegionBytes, MaxChars + 1) :
          /\ \E ix \in [1..k -> 0..MaxTreeNodes] :
                data = EncodeTypeTree(TreeNodeList(k, ix), cc, region, e)
          /\ fs = [FileStream(Len(data)) EXCEPT !.endian = e]
    /\ tt = NoTypeTreeDecode
    /\ ri = 0 /\ walker = <<>> /\ cursor = None /\ type_dict = {}
    /\ NoDeserialize
    /\ NoMain
    /\ NoAux

\* node_count = fs.read_uint32(); char_count = fs.read_uint32()
DecodeCounts ==
    /\ pc = "tt_counts"
    /\ \E r \in {ReadMany(fs, data, <<"u32", "u32">>)} :
           /\ fs' = r.fs
           /\ IF r.err
              THEN pc' = "error" /\ UNCHANGED tt
              ELSE /\ pc' = "tt_nodes"
                   /\ tt' = [tt EXCEPT !.node_count = r.vals[1],
                                       !.char_count = r.vals[2],
                                       !.type_index = -1]
    /\ UNCHANGED <<nodes, ri, walker, cursor, type_dict, data, desVars, mainVars, auxVars>>

\* one iteration of `for _ in range(node_count)`
DecodeNode ==
    /\ pc = "tt_nodes"
    /\ Len(nodes) < tt.node_count
    /\ \E r \in {DecodeTypeField(fs, data)} :
           /\ fs' = r.fs
           /\ IF r.err \/ ~IndexAccepted(tt.type_index, r.node.index)
              THEN pc' = "error" /\ UNCHANGED <<nodes, tt>>
              ELSE /\ nodes' = Append(nodes, r.node)
                   /\ tt' = [tt EXCEPT !.type_index = @ + 1]
                   /\ pc' = "tt_nodes"
    /\ UNCHANGED <<ri, walker, cursor, type_dict, data, desVars, mainVars, auxVars>>

\* the node loop ends; `if char_count > 0:` opens the string region
DecodeNodesEnd ==
    /\ pc = "tt_nodes"
    /\ Len(nodes) >= tt.node_count
    /\ IF tt.char_count > 0
       THEN /\ tt' = [tt EXCEPT !.string_offset = fs.position,
                                !.string_size = 0]
            /\ pc' = "tt_strings"
       ELSE pc' = "tt_resolve" /\ UNCHANGED tt
    /\ UNCHANGED <<nodes, ri, walker, cursor, type_dict, data, fs, desVars, mainVars, auxVars>>

\* one iteration of `while string_size + 1 < char_count`
DecodeString ==
    /\ pc = "tt_strings"
    /\ StringLoopContinues(tt.string_size, tt.char_count)
    /\ \E offset \in {fs.position - tt.string_offset},
          r \in {ReadString(fs, data)} :
           /\ fs' = r.fs
           /\ IF r.err
              THEN pc' = "error" /\ UNCHANGED tt
              ELSE /\ tt' = [tt EXCEPT
                               !.strings = StrPut(@, offset, r.val),
                               !.string_size = @ + (r.fs.position - fs.position)]
                   /\ pc' = "tt_strings"
    /\ UNCHANGED <<nodes, ri, walker, cursor, type_dict, data, desVars, mainVars, auxVars>>

\* the string loop ends; the assertion on the region's length
DecodeStringsEnd ==
    /\ pc = "tt_strings"
    /\ ~StringLoopContinues(tt.string_size, tt.char_count)
    /\ pc' = IF StringRegionAccepted(fs.position, tt.string_offset,
                                     tt.char_count)
             THEN "tt_resolve" ELSE "error"
    /\ UNCHANGED <<nodes, ri, walker, cursor, type_dict, data, fs, tt, desVars, mainVars, auxVars>>

\* names and types are resolved; self.name = self.nodes[0].type (IndexError
\* for an empty node list).  A lookup of an offset that no string was read
\* at either fails or yields None.
ResolveNames ==
    /\ pc = "tt_resolve"
    /\ \/ /\ nodes # <<>>
          /\ nodes' = [i \in 1..Len(nodes) |->
                [nodes[i] EXCEPT
                   !.name = GetCaculateString(nodes[i].name_str_offset,
                                              tt.strings),
                   !.type = GetCaculateString(nodes[i].type_str_offset,
                                              tt.strings)]]
          /\ tt' = [tt EXCEPT !.name = nodes'[1].type]
          /\ pc' = "tt_decoded"
       \/ /\ nodes = <<>> \/ ~Resolvable(nodes, tt.strings)
          /\ pc' = "error"
          /\ UNCHANGED <<nodes, tt>>
    /\ UNCHANGED <<ri, walker, cursor, type_dict, data, fs, desVars, mainVars, auxVars>>

NextTypeTree ==
    \/ DecodeCounts \/ DecodeNode \/ DecodeNodesEnd
    \/ DecodeString \/ DecodeStringsEnd \/ ResolveNames

SpecTypeTree == InitTypeTree /\ [][NextTypeTree]_vars

----------------------------------------------------------------------------
(* Field lists given to the registrar.  __decode_type_tree leaves the      *)
(* index of node i equal to i for every i >= 1 and does not constrain the  *)
(* index of node 0.                                                        *)

TypeNames == {"A", "B"}

RootIndexes == {0, 2}

RegField(level, type, index) ==
    [TypeField EXCEPT !.level = level, !.type = type, !.index = index]

\* the list of k fields with levels ls, types ts and root index r
RegNodeList(k, ls, ts, r) ==
    [i \in 1..k |-> RegField(ls[i], ts[i], IF i = 1 THEN r ELSE i - 1)]

InitRegister ==
    /\ pc = "register"
    /\ \E k \in 0..MaxNodes :
          \E ls \in [1..k -> 0..MaxLevel], ts \in [1..k -> TypeNames],
             r \in RootIndexes :
             nodes = RegNodeList(k, ls, ts, r)
    /\ ri = 0
    /\ walker = <<>>
    /\ cursor = None
    /\ type_dict = {}
    /\ NoStream
    /\ tt = NoTypeTreeDecode
    /\ NoDeserialize
    /\ NoMain
    /\ NoAux

RegCurrent == RegState(walker, cursor, type_dict, FALSE)

RegCommit(st, next) ==
    /\ walker' = st.walker
    /\ cursor' = st.cursor
    /\ type_dict' = st.type_dict
    /\ pc' = IF st.error THEN "error" ELSE next

\* one iteration of the for loop
RegisterNode ==
    /\ pc = "register"
    /\ ri < Len(nodes)
    /\ RegCommit(RegNode(nodes, RegCurrent, ri), "register")
    /\ ri' = ri + 1
    /\ UNCHANGED <<nodes, data, fs, tt, desVars, mainVars, auxVars>>

\* one iteration of `while walker:`
RegisterDrain ==
    /\ pc = "register"
    /\ ri >= Len(nodes)
    /\ walker # <<>>
    /\ RegCommit(PopFrame(nodes, RegCurrent), "register")
    /\ UNCHANGED <<nodes, ri, data, fs, tt, desVars, mainVars, auxVars>>

\* the while loop ends: register_type_tree returns
RegisterReturn ==
    /\ pc = "register"
    /\ ri >= Len(nodes)
    /\ walker = <<>>
    /\ pc' = "registered"
    /\ UNCHANGED <<regVars, data, fs, tt, desVars, mainVars, auxVars>>

NextRegister == RegisterNode \/ RegisterDrain \/ RegisterReturn

SpecRegister == InitRegister /\ [][NextRegister]_vars

----------------------------------------------------------------------------
(* serialize.py: SerializedFile.deserialize                                *)
(*                                                                         *)
(* The bytes of the object data are not fixed in advance: each s32 count   *)
(* or length that deserialize reads is drawn when it is read, and a read   *)
(* moves the stream as FileStream.read does for the bytes that remain.     *)
(* The value a primitive decodes to is not tracked.                        *)

AlignFlag == 16384

\* self.__premitive_decoders, each name with the typed read it selects
PrimitiveDecoders ==
    ("bool" :> "bool") @@ ("SInt8" :> "s8") @@ ("UInt8" :> "u8")
    @@ ("char" :> "u8") @@ ("SInt16" :> "s16") @@ ("UInt16" :> "u16")
    @@ ("short" :> "s16") @@ ("unsigned short" :> "u16")
    @@ ("SInt32" :> "s32") @@ ("UInt32" :> "u32") @@ ("int" :> "s32")
    @@ ("unsigned int" :> "u32") @@ ("SInt64" :> "s64")
    @@ ("UInt64" :> "u64") @@ ("long" :> "s64")
    @@ ("unsigned long" :> "u64") @@ ("float" :> "f32")
    @@ ("double" :> "f64") @@ ("Type*" :> "u32")

\* Mutant: no primitive field is followed by an alignment.
HasAlignFlag_Never(node) == FALSE

\* node.meta_flags & 0x4000 != 0
HasAlignFlag(node) == (node.meta_flags \div AlignFlag) % 2 = 1

PrimVal == Value("prim", 0, FALSE, <<>>)

BytesVal(n) == Value("bytes", n, FALSE, <<>>)

ListVal(items) == Value("list", Len(items), FALSE, items)

MapVal(entries) == Value("map", Len(entries), FALSE, entries)

\* {'size': count}
ArrayVal(count) == Value("array", count, FALSE, <<>>)

\* array['data'] = payload
WithData(array, payload) == [array EXCEPT !.has = TRUE, !.data = <<payload>>]

\* result[key] = val
DictSet(entries, key, val) ==
    IF \E i \in 1..Len(entries) : entries[i].key = key
    THEN [i \in 1..Len(entries) |->
            IF entries[i].key = key
            THEN [key |-> key, val |-> val] ELSE entries[i]]
    ELSE Append(entries, [key |-> key, val |-> val])

DictHasKey(entries, key) == \E i \in 1..Len(entries) : entries[i].key = key

DictValue(entries, key) ==
    entries[CHOOSE i \in 1..Len(entries) : entries[i].key = key].val

\* the array whose element loop a frame is in
NoArr == [active |-> FALSE, node |-> None, elem |-> None, count |-> 0,
          items |-> <<>>, m |-> 0]

\* the locals of one deserialize call: the class view, the field counter n,
\* the result so far, and the array being filled
Frame(tree, view) ==
    [tree |-> tree, view |-> view, n |-> 0, result |-> <<>>, arr |-> NoArr]

\* the state of the deserializer after a step
Mach(f, stk, st, ev, rv) ==
    [fs |-> f, stack |-> stk, st |-> st, last |-> ev, ret |-> rv]

\* an exception leaves every call in progress
Fail(f) == Mach(f, <<>>, "error", NoEvent, NoneVal)

SetTop(stk, F) == [stk EXCEPT ![Len(stk)] = F]

\* deserialize(fs, meta_type=type_map.get(key)): None has no type_tree
Call(trees, f, stk, tree, key) ==
    IF DictHas(At(trees, tree).type_dict, key)
    THEN Mach(f, Append(stk, Frame(tree, DictGet(At(trees, tree).type_dict, key))),
              "run", NoEvent, NoneVal)
    ELSE Fail(f)

\* Mutant: the element descriptor is taken from the node after the array.
ElementPosition_Next(node) == node.index + 1

\* meta_type.type_tree.nodes[node.index + 2]
ElementPosition(node) == node.index + 2

\* Mutant: an empty array is aligned like any other.
EmptyArray_Aligned(f) == FsAlign(f, 4)

\* if element_count == 0: continue
EmptyArray(f) == f

\* Mutant: an empty array gets an empty 'data' entry.
EmptyArrayRecord_WithData(count) == WithData(ArrayVal(count), ListVal(<<>>))

\* the record of an empty array: {'size': element_count}
EmptyArrayRecord(count) == ArrayVal(count)

\* fs.read(size) if size > 0 else b'': [fs, got, err]
ReadBlob(f, size) ==
    IF size > 0 THEN FsRead(f, size) ELSE [fs |-> f, got |-> 0, err |-> FALSE]

\* The field at position pos of the frame's view is an array: lines 231-254
\* up to the element loop.
ArrayField(ns, f, stk, F, pos, count) ==
    LET node == At(ns, pos)
        ep == ElementPosition(node)
    IN  IF ep >= Len(ns) \/ ep < 0 - Len(ns) THEN Fail(f)
        ELSE Let(TypedRead(f, "s32"), LAMBDA r :
          IF r.err THEN Fail(r.fs)
          ELSE IF count = 0
          THEN Mach(EmptyArray(r.fs),
                    SetTop(stk, [F EXCEPT
                       !.result = DictSet(@, node.name, EmptyArrayRecord(count)),
                       !.n = @ + 1]),
                    "run", Event("array", F.tree, pos, count, ep % Len(ns)), NoneVal)
          ELSE IF At(ns, ep % Len(ns)).byte_size = 1
          THEN Let(ReadBlob(r.fs, count), LAMBDA b :
                 IF b.err THEN Fail(b.fs)
                 ELSE Mach(FsAlign(b.fs, 4),
                           SetTop(stk, [F EXCEPT
                              !.result = DictSet(@, node.name,
                                  WithData(ArrayVal(count), BytesVal(b.got))),
                              !.n = @ + 1]),
                           "run", Event("array", F.tree, pos, count, ep % Len(ns)),
                           NoneVal))
          ELSE Mach(r.fs,
                    SetTop(stk, [F EXCEPT
                       !.result = DictSet(@, node.name, ArrayVal(count)),
                       !.arr = [active |-> TRUE, node |-> pos,
                                elem |-> ep % Len(ns), count |-> count,
                                items |-> <<>>, m |-> 0]]),
                    "run", NoEvent, NoneVal))

\* size = fs.read_sint32(); fs.read(size) if size > 0 else b''; fs.align():
\* [fs, got, err]
ReadLengthPrefixed(f, size) ==
    Let(TypedRead(f, "s32"), LAMBDA r :
        IF r.err THEN [fs |-> r.fs, got |-> 0, err |-> TRUE]
        ELSE Let(ReadBlob(r.fs, size), LAMBDA b :
               IF b.err THEN b
               ELSE [fs |-> FsAlign(b.fs, 4), got |-> b.got, err |-> FALSE]))

\* lines 255-258: a field of type 'string'
StringField(ns, f, stk, F, pos, size) ==
    Let(ReadLengthPrefixed(f, size), LAMBDA r :
        IF r.err THEN Fail(r.fs)
        ELSE Mach(r.fs,
                  SetTop(stk, [F EXCEPT
                     !.result = DictSet(@, At(ns, pos).name, BytesVal(r.got)),
                     !.n = @ + 1]),
                  "run", Event("string", F.tree, pos, size, None), NoneVal))

\* lines 259-261: a field with a primitive decoder
PrimitiveField(ns, f, stk, F, pos) ==
    Let(TypedRead(f, PrimitiveDecoders[At(ns, pos).type]), LAMBDA r :
        IF r.err THEN Fail(r.fs)
        ELSE Mach(IF HasAlignFlag(At(ns, pos)) THEN FsAlign(r.fs, 4) ELSE r.fs,
                  SetTop(stk, [F EXCEPT
                     !.result = DictSet(@, At(ns, pos).name, PrimVal),
                     !.n = @ + 1]),
                  "run", Event("prim", F.tree, pos, 0, None), NoneVal))

\* Mutant: a zero-size field is stored as an empty value.
ZeroSizeField_Stored(ns, f, stk, F, pos) ==
    Mach(f, SetTop(stk, [F EXCEPT
            !.result = DictSet(@, At(ns, pos).name, NoneVal),
            !.n = @ + 1]),
         "run", Event("zero", F.tree, pos, 0, None), NoneVal)

\* line 262: elif node.byte_size == 0: continue
ZeroSizeField(ns, f, stk, F, pos) ==
    Mach(f, SetTop(stk, [F EXCEPT !.n = @ + 1]), "run",
         Event("zero", F.tree, pos, 0, None), NoneVal)

\* One iteration of `for n in range(len(meta_type.fields))` up to the
\* first nested call or element loop; v is the s32 that is read, if any.
FieldStep(trees, f, stk, F, v) ==
    LET ns == At(trees, F.tree).nodes
        pos == At(F.view.fields, F.n)
        node == At(ns, pos)
    IN  IF node.is_array THEN ArrayField(ns, f, stk, F, pos, v)
        ELSE IF node.type = "string" THEN StringField(ns, f, stk, F, pos, v)
        ELSE IF node.type \in DOMAIN PrimitiveDecoders
        THEN PrimitiveField(ns, f, stk, F, pos)
        ELSE IF node.byte_size = 0 THEN ZeroSizeField(ns, f, stk, F, pos)
        ELSE Call(trees, f, stk, F.tree, node.index)

AppendItem(F, item) ==
    [F EXCEPT !.arr.items = Append(@, item), !.arr.m = @ + 1]

\* One iteration of an element loop of lines 240-252 up to a nested call;
\* v is the s32 length of a string element.
ElementStep(trees, f, stk, F, v) ==
    LET ns == At(trees, F.tree).nodes
        elem == At(ns, F.arr.elem)
    IN  IF elem.type \in DOMAIN PrimitiveDecoders
        THEN Let(TypedRead(f, PrimitiveDecoders[elem.type]), LAMBDA r :
               IF r.err THEN Fail(r.fs)
               ELSE Mach(r.fs, SetTop(stk, AppendItem(F, PrimVal)), "run",
                         NoEvent, NoneVal))
        ELSE IF elem.type = "string"
        THEN Let(ReadLengthPrefixed(f, v), LAMBDA r :
               IF r.err THEN Fail(r.fs)
               ELSE Mach(r.fs, SetTop(stk, AppendItem(F, BytesVal(r.got))),
                         "run", NoEvent, NoneVal))
        ELSE Call(trees, f, stk, F.tree, elem.index)

\* lines 253-254: array['data'] = items; fs.align()
ArrayEnd(trees, f, stk, F) ==
    LET name == At(At(trees, F.tree).nodes, F.arr.node).name
    IN  Mach(FsAlign(f, 4),
             SetTop(stk, [F EXCEPT
                !.result = DictSet(@, name,
                    WithData(DictValue(F.result, name), ListVal(F.arr.items))),
                !.arr = NoArr,
                !.n = @ + 1]),
             "run",
             Event("array", F.tree, F.arr.node, F.arr.count, F.arr.elem), NoneVal)

\* `return result`: the value goes to the calling frame's element list or
\* field, or out of the outermost call
Return(trees, f, stk, F) ==
    LET value == MapVal(F.result)
        rest == ButLast(stk)
    IN  IF rest = <<>> THEN Mach(f, <<>>, "ret", NoEvent, value)
        ELSE LET G == Last(rest)
                 pos == At(G.view.fields, G.n)
             IN  IF G.arr.active
                 THEN Mach(f, SetTop(rest, AppendItem(G, value)), "run",
                           NoEvent, NoneVal)
                 ELSE Mach(f,
                        SetTop(rest, [G EXCEPT
                           !.result = DictSet(@,
                               At(At(trees, G.tree).nodes, pos).name, value),
                           !.n = @ + 1]),
                        "run", Event("composite", G.tree, pos, 0, None), NoneVal)

----------------------------------------------------------------------------
(* Type trees given to the deserializer: a root and up to MaxFields        *)
(* fields, each one of the subtrees below.  A node's index is its          *)
(* position, and its name is unique in the tree.                           *)

Field(level, is_array, type, byte_size, meta_flags) ==
    [TypeField EXCEPT !.level = level, !.is_array = is_array, !.type = type,
                      !.byte_size = byte_size, !.meta_flags = meta_flags]

ArrayNodes(level) ==
    <<Field(level, TRUE, "Array", -1, 0), Field(level + 1, FALSE, "int", 4, 0)>>

Templates ==
    { <<Field(1, FALSE, "bool", 1, 0)>>,
      <<Field(1, FALSE, "bool", 1, AlignFlag)>>,
      <<Field(1, FALSE, "int", 4, 0)>>,
      <<Field(1, FALSE, "float", 4, AlignFlag)>>,
      <<Field(1, FALSE, "string", -1, 0)>> \o ArrayNodes(2)
          \o <<Field(3, FALSE, "char", 1, 0)>>,
      <<Field(1, FALSE, "Sentinel", 0, 0)>>,
      ArrayNodes(1) \o <<Field(2, FALSE, "char", 1, 0)>>,
      ArrayNodes(1) \o <<Field(2, FALSE, "int", 4, 0)>>,
      ArrayNodes(1) \o <<Field(2, FALSE, "string", -1, 0)>>,
      ArrayNodes(1) \o <<Field(2, FALSE, "Pair", -1, 0),
                         Field(3, FALSE, "bool", 1, 0),
                         Field(3, FALSE, "int", 4, AlignFlag)>>,
      <<Field(1, FALSE, "Pair", -1, 0), Field(2, FALSE, "bool", 1, 0),
        Field(2, FALSE, "int", 4, 0)>>,
      <<Field(1, FALSE, "Leaf", 4, 0)>> }

RECURSIVE Concat(_)
Concat(ss) == IF ss = <<>> THEN <<>> ELSE Head(ss) \o Concat(Tail(ss))

Numbered(ns) ==
    [i \in 1..Len(ns) |-> [ns[i] EXCEPT !.index = i - 1, !.name = i - 1]]

\* MetadataTypeTree after decode and register_type_tree
TypeTree(ns) ==
    [nodes |-> ns, type_dict |-> RegisterTypeTree(ns).type_dict,
     name |-> IF ns = <<>> THEN "" ELSE ns[1].type]

NodelessTree == TypeTree(<<>>)

TreesOf(k) ==
    { TypeTree(Numbered(<<Field(0, FALSE, "Root", -1, 0)>> \o Concat(ts))) :
        ts \in SeqsUpTo(Templates, k) }

Counts == (0 - 1)..MaxCount

\* stream.seek(start); deserialize(fs=stream, meta_type=type_dict.get(0))
\* is about to run (as in collect_mono_scripts)
InitDeserialize ==
    /\ pc = "call"
    /\ type_trees \in {<<t>> : t \in TreesOf(MaxFields)}
    /\ \E start \in 0..3, avail \in 0..MaxAvail :
          /\ fs = FsSeek([FileStream(start + avail) EXCEPT !.endian = "<"],
                         start)
          /\ run = [NoRun EXCEPT !.offset = start]
    /\ data = <<>>
    /\ stack = <<>> /\ last = NoEvent /\ ret = NoneVal
    /\ nodes = <<>> /\ ri = 0 /\ walker = <<>> /\ cursor = None
    /\ type_dict = {} /\ tt = NoTypeTreeDecode
    /\ NoMain
    /\ NoAux

Commit(m, running, returned) ==
    /\ fs' = m.fs
    /\ stack' = m.stack
    /\ last' = m.last
    /\ ret' = m.ret
    /\ pc' = CASE m.st = "run" -> running
               [] m.st = "ret" -> returned
               [] m.st = "error" -> "error"

\* the outermost call
DeserializeCall ==
    /\ pc = "call"
    /\ \E m \in {Call(type_trees, fs, stack, 0, 0)} : Commit(m, "des", "des_ret")
    /\ UNCHANGED <<regVars, data, tt, type_trees, run, mainVars, auxVars>>

DeserializeField ==
    /\ pc = "des"
    /\ \E F \in {Last(stack)} :
          /\ ~F.arr.active
          /\ F.n < Len(F.view.fields)
          /\ \E v \in Counts :
                \E m \in {FieldStep(type_trees, fs, stack, F, v)} :
                    Commit(m, "des", "des_ret")
    /\ UNCHANGED <<regVars, data, tt, type_trees, run, mainVars, auxVars>>

DeserializeElement ==
    /\ pc = "des"
    /\ \E F \in {Last(stack)} :
          /\ F.arr.active
          /\ F.arr.m < F.arr.count
          /\ \E v \in Counts :
                \E m \in {ElementStep(type_trees, fs, stack, F, v)} :
                    Commit(m, "des", "des_ret")
    /\ UNCHANGED <<regVars, data, tt, type_trees, run, mainVars, auxVars>>

DeserializeArrayEnd ==
    /\ pc = "des"
    /\ \E F \in {Last(stack)} :
          /\ F.arr.active
          /\ F.arr.m >= F.arr.count
          /\ \E m \in {ArrayEnd(type_trees, fs, stack, F)} : Commit(m, "des", "des_ret")
    /\ UNCHANGED <<regVars, data, tt, type_trees, run, mainVars, auxVars>>

DeserializeReturn ==
    /\ pc = "des"
    /\ \E F \in {Last(stack)} :
          /\ ~F.arr.active
          /\ F.n >= Len(F.view.fields)
          /\ \E m \in {Return(type_trees, fs, stack, F)} :
                Commit(m, "des", "des_ret")
    /\ UNCHANGED <<regVars, data, tt, type_trees, run, mainVars, auxVars>>

DeserializeStep ==
    \/ DeserializeField \/ DeserializeElement
    \/ DeserializeArrayEnd \/ DeserializeReturn

NextDeserialize == DeserializeCall \/ DeserializeStep

SpecDeserialize == InitDeserialize /\ [][NextDeserialize]_vars

----------------------------------------------------------------------------
(* serialize.py: SerializedFile.dump, and unity.py: the save command of    *)
(* processs.  The object table is drawn one object per iteration.          *)

\* a tree as __decode_type_tree accepts it when the first node carries the
\* index 2: the assertion on indexes starts at the second node
ShiftedTree ==
    TypeTree([i \in 1..2 |->
        [Numbered(<<Field(0, FALSE, "Root", -1, 0),
                    Field(1, FALSE, "int", 4, 0)>>)[i] EXCEPT !.index = @ + 2]])

DumpTrees == TreesOf(1) \cup {NodelessTree, ShiftedTree}

ObjectInfos(trees) ==
    [byte_start : 0..1, byte_size : 0..MaxAvail, type_id : 0..(Len(trees) - 1)]

InitDump ==
    /\ pc = "loop"
    /\ type_trees \in {<<t>> : t \in DumpTrees}
    /\ \E length \in 0..MaxAvail :
          fs = [FileStream(length) EXCEPT !.endian = "<"]
    /\ \E cmd \in {"dump", "save"}, base \in {0, 4} :
          run = [NoRun EXCEPT !.cmd = cmd, !.base = base]
    /\ data = <<>>
    /\ stack = <<>> /\ last = NoEvent /\ ret = NoneVal
    /\ nodes = <<>> /\ ri = 0 /\ walker = <<>> /\ cursor = None
    /\ type_dict = {} /\ tt = NoTypeTreeDecode
    /\ NoMain
    /\ NoAux

\* dump, lines 269-276: one iteration up to the call of deserialize
DumpObject ==
    /\ pc = "loop"
    /\ run.cmd = "dump"
    /\ run.done < MaxObjects
    /\ \E o \in ObjectInfos(type_trees) :
        \E f \in {FsSeek(fs, run.base + o.byte_start)} :
          IF \/ At(type_trees, o.type_id).type_dict = {}
             \/ ~DictHas(At(type_trees, o.type_id).type_dict, 0)
          THEN /\ fs' = f
               /\ run' = [run EXCEPT !.o = o, !.done = @ + 1,
                                     !.completed = FALSE]
               /\ UNCHANGED <<pc, stack, last, ret>>
          ELSE /\ run' = [run EXCEPT !.o = o, !.done = @ + 1,
                                     !.completed = FALSE,
                                     !.offset = f.position]
               /\ \E m \in {Call(type_trees, f, <<>>, o.type_id, 0)} :
                     Commit(m, "des", "des_ret")
    /\ UNCHANGED <<regVars, data, tt, type_trees, mainVars, auxVars>>

\* dump, line 277: assert fs.position - offset == o.byte_size
DumpCheck ==
    /\ pc = "des_ret"
    /\ run.cmd = "dump"
    /\ IF fs.position - run.offset = run.o.byte_size
       THEN pc' = "loop" /\ run' = [run EXCEPT !.completed = TRUE]
       ELSE pc' = "error" /\ UNCHANGED run
    /\ UNCHANGED <<regVars, streamVars, tt, type_trees, stack, last, ret, mainVars, auxVars>>

\* processs, lines 277-286: one iteration of the save loop up to the call
\* of deserialize
SaveObject ==
    /\ pc = "loop"
    /\ run.cmd = "save"
    /\ run.done < MaxObjects
    /\ \E o \in ObjectInfos(type_trees) :
          IF At(type_trees, o.type_id).type_dict = {}
          THEN /\ run' = [run EXCEPT !.o = o, !.done = @ + 1,
                                     !.completed = FALSE]
               /\ UNCHANGED <<pc, fs, stack, last, ret>>
          ELSE \E f \in {FsSeek(fs, run.base + o.byte_start)} :
               /\ run' = [run EXCEPT !.o = o, !.done = @ + 1,
                                     !.completed = FALSE,
                                     !.offset = f.position]
               /\ \E m \in {Call(type_trees, f, <<>>, o.type_id, 0)} :
                     Commit(m, "des", "des_ret")
    /\ UNCHANGED <<regVars, data, tt, type_trees, mainVars, auxVars>>

\* processs, lines 287-327: the object is named and written out; the stream
\* position is not compared with o.byte_size
SaveWrite ==
    /\ pc = "des_ret"
    /\ run.cmd = "save"
    /\ pc' = "loop"
    /\ run' = [run EXCEPT !.completed = TRUE]
    /\ UNCHANGED <<regVars, streamVars, tt, type_trees, stack, last, ret, mainVars, auxVars>>

\* the loop over the objects ends
DumpEnd ==
    /\ pc = "loop"
    /\ pc' = "done"
    /\ UNCHANGED <<regVars, streamVars, tt, desVars, mainVars, auxVars>>

NextDump ==
    \/ DumpObject \/ DumpCheck \/ SaveObject \/ SaveWrite \/ DumpEnd
    \/ DeserializeStep

SpecDump == InitDump /\ [][NextDump]_vars

----------------------------------------------------------------------------
(* stream.py: a FileStream over a buffer, called method by method *)

InitStream ==
    /\ pc = "stream"
    /\ \E length \in 0..MaxLength :
          /\ \E zero \in 0..length :
                data = [i \in 1..length |-> IF i = zero THEN 0 ELSE i]
          /\ fs = FileStream(length)
    /\ out = NoCall
    /\ main = NoMainState
    /\ nodes = <<>> /\ ri = 0 /\ walker = <<>> /\ cursor = None
    /\ type_dict = {} /\ tt = NoTypeTreeDecode
    /\ NoDeserialize
    /\ NoAux

\* fs.read(n)
StreamRead ==
    /\ pc = "stream"
    /\ \E n \in (0 - 1)..(MaxLength + 1) :
          /\ fs.read_count + n <= MaxReadCount
          /\ fs.read_count + n >= 0 - MaxReadCount
          /\ \E r \in {FsRead(fs, n)} :
                /\ fs' = r.fs
                /\ out' = [op |-> "read", n |-> n, before |-> fs,
                           got |-> Bytes(data, fs.position, r.got),
                           err |-> r.err]
    /\ UNCHANGED <<pc, regVars, data, tt, desVars, main, auxVars>>

\* fs.seek(offset)
StreamSeek ==
    /\ pc = "stream"
    /\ \E offset \in 0..(MaxLength + 1) :
          /\ fs' = FsSeek(fs, offset)
          /\ out' = [op |-> "seek", n |-> offset, before |-> fs,
                     got |-> <<>>, err |-> FALSE]
    /\ UNCHANGED <<pc, regVars, data, tt, desVars, main, auxVars>>

\* fs.align()
StreamAlign ==
    /\ pc = "stream"
    /\ fs' = FsAlign(fs, 4)
    /\ out' = [op |-> "align", n |-> 4, before |-> fs, got |-> <<>>,
               err |-> FALSE]
    /\ UNCHANGED <<pc, regVars, data, tt, desVars, main, auxVars>>

\* FileStream.lock(size)
FsLock(f, size) == [f EXCEPT !.read_limit = size + 4, !.read_count = 0]

\* FileStream.unlock()
FsUnlock(f) == [f EXCEPT !.read_limit = 0]

StreamLock ==
    /\ pc = "stream"
    /\ \E size \in 0..1 :
          /\ fs' = FsLock(fs, size)
          /\ out' = [op |-> "lock", n |-> size, before |-> fs, got |-> <<>>,
                     err |-> FALSE]
    /\ UNCHANGED <<pc, regVars, data, tt, desVars, main, auxVars>>

StreamUnlock ==
    /\ pc = "stream"
    /\ fs' = FsUnlock(fs)
    /\ out' = [op |-> "unlock", n |-> 0, before |-> fs, got |-> <<>>,
               err |-> FALSE]
    /\ UNCHANGED <<pc, regVars, data, tt, desVars, main, auxVars>>

\* fs.read_string()
StreamReadString ==
    /\ pc = "stream"
    /\ \E r \in {ReadString(fs, data)} :
          /\ r.fs.read_count <= MaxReadCount
          /\ fs' = r.fs
          /\ out' = [op |-> "read_string", n |-> 0, before |-> fs,
                     got |-> r.val, err |-> r.err]
    /\ UNCHANGED <<pc, regVars, data, tt, desVars, main, auxVars>>

NextStream ==
    \/ StreamRead \/ StreamSeek \/ StreamAlign \/ StreamLock \/ StreamUnlock
    \/ StreamReadString

SpecStream == InitStream /\ [][NextStream]_vars

----------------------------------------------------------------------------
(* unity.py: main, with ArchiveStorageHeader.decode and the header of      *)
(* SerializedFile.decode read byte by byte.  The blocks of an archive are  *)
(* not decompressed: the logical stream and the directory they decode to   *)
(* are part of the input.  The serialized files of the input have no type  *)
(* trees, objects, script types or externals.                              *)

UnityFS == <<85, 110, 105, 116, 121, 70, 83>>

SerializedFileFlag == 4

CStr(b) == b \o <<0>>

EndianOf(endianess) == IF endianess # 0 THEN ">" ELSE "<"

\* the bytes of an archive header whose numbers are written in endian e
EncodeArchiveHeader(e, version, cbis, ubis, flags) ==
    CStr(UnityFS) \o Pack(version, 4, e) \o CStr(<<53>>) \o CStr(<<53>>)
    \o Pack(0, 8, e) \o Pack(cbis, 4, e) \o Pack(ubis, 4, e)
    \o Pack(flags, 4, e)

\* the bytes of a serialized file whose header numbers are written in
\* endian e and whose body is written in the endian its endianess byte
\* declares
EncodeSerializedFile(e, file_size, endianess, platform) ==
    Pack(1, 4, e) \o Pack(file_size, 4, e) \o Pack(17, 4, e)
    \o Pack(20, 4, e) \o <<endianess, 0, 0, 0>>
    \o CStr(<<53>>) \o Pack(platform, 4, EndianOf(endianess)) \o <<0>>
    \o Pack(0, 4, EndianOf(endianess)) \o Pack(0, 4, EndianOf(endianess))
    \o Pack(0, 4, EndianOf(endianess)) \o Pack(0, 4, EndianOf(endianess))
    \o <<0>>

\* the length of each serialized file of the input
FileBytes == Len(EncodeSerializedFile(">", 0, 0, 0))

\* the value whose bytes in the other endian are those of v
Swapped(v) == Unpack(Pack(v, 4, "<"), ">", FALSE)

SerializedFiles ==
    { EncodeSerializedFile(e, size, endianess, 2) :
        e \in Endians, size \in {FileBytes, Swapped(FileBytes)},
        endianess \in {0, 1} }

RECURSIVE Directory(_, _, _)
Directory(files, sizes, flags) ==
    IF files = <<>> THEN <<>>
    ELSE Directory(ButLast(files), ButLast(sizes), ButLast(flags))
         \o <<[offset |-> FileBytes * (Len(files) - 1),
               size |-> Last(sizes), flags |-> Last(flags)]>>

InitMain ==
    /\ pc = "main"
    /\ \E k \in 1..MaxFileNodes :
         \E files \in [1..k -> SerializedFiles],
            sizes \in [1..k -> {FileBytes, Swapped(FileBytes)}],
            flags \in [1..k -> {0, SerializedFileFlag}],
            archive \in BOOLEAN, e \in Endians :
            /\ data = IF archive THEN EncodeArchiveHeader(e, 6, 1, 2, 67)
                      ELSE files[1]
            /\ main = [NoMainState EXCEPT
                         !.raw = data,
                         !.logical = Concat(files),
                         !.dir = Directory(files, sizes, flags)]
            /\ archive \/ (k = 1 /\ sizes[1] = FileBytes /\ flags[1] = 0)
    /\ fs = FileStream(Len(data))
    /\ out = NoCall
    /\ nodes = <<>> /\ ri = 0 /\ walker = <<>> /\ cursor = None
    /\ type_dict = {} /\ tt = NoTypeTreeDecode
    /\ NoDeserialize
    /\ NoAux

\* Mutant: version 5 is accepted.
VersionAccepted_Any(version) == TRUE

\* assert self.version != 5
VersionAccepted(version) == version # 5

\* ArchiveStorageHeader.decode: [fs, header, err]
ArchiveHeaderDecode(f, d) ==
    Let(ReadString(f, d), LAMBDA sig :
      IF sig.err \/ sig.val # UnityFS
      THEN [fs |-> sig.fs, header |-> NoMainState.archive, err |-> TRUE]
      ELSE Let(ReadTyped(sig.fs, d, "s32"), LAMBDA ver :
        IF ver.err \/ ~VersionAccepted(ver.val)
        THEN [fs |-> ver.fs, header |-> NoMainState.archive, err |-> TRUE]
        ELSE Let(ReadString(ver.fs, d), LAMBDA s1 :
          IF s1.err
          THEN [fs |-> s1.fs, header |-> NoMainState.archive, err |-> TRUE]
          ELSE Let(ReadString(s1.fs, d), LAMBDA s2 :
            IF s2.err
            THEN [fs |-> s2.fs, header |-> NoMainState.archive, err |-> TRUE]
            ELSE Let(ReadMany(s2.fs, d, <<"u64", "u32", "u32">>), LAMBDA r :
              IF r.err \/ ~(r.vals[2] < r.vals[3])
              THEN [fs |-> r.fs, header |-> NoMainState.archive, err |-> TRUE]
              ELSE Let(ReadTyped(r.fs, d, "u32"), LAMBDA fl :
                IF fl.err
                THEN [fs |-> fl.fs, header |-> NoMainState.archive,
                      err |-> TRUE]
                ELSE [fs |-> fl.fs, err |-> FALSE,
                      header |-> [version |-> ver.val,
                          size |-> r.vals[1],
                          compressed_blocks_info_size |-> r.vals[2],
                          uncompressed_blocks_info_size |-> r.vals[3],
                          flags |-> fl.val,
                          header_size |-> fl.fs.position - f.position,
                          decoded |-> TRUE]]))))))

\* main, lines 376-379: stream = FileStream(file_path); node = FileNode();
\* node.size = stream.length
Fallback(nodes_decoded) ==
    /\ data' = main.raw
    /\ fs' = FileStream(Len(main.raw))
    /\ main' = [main EXCEPT !.nodes = nodes_decoded,
                            !.node = [FileNode EXCEPT !.size = Len(main.raw)]]
    /\ pc' = "loop"

\* UnityArchiveFile.decode, lines 186-188: fs = FileStream(); open; the
\* header is decoded; an exception goes to main's except branch
ArchiveOpen ==
    /\ pc = "main"
    /\ \E r \in {ArchiveHeaderDecode(fs, data)} :
          IF r.err THEN Fallback(<<>>)
          ELSE /\ fs' = r.fs
               /\ main' = [main EXCEPT !.archive = r.header]
               /\ pc' = "blocks"
               /\ UNCHANGED data
    /\ UNCHANGED <<regVars, tt, desVars, out, auxVars>>

\* UnityArchiveFile.decode, lines 189-216: the blocks info and the blocks
\* are read and decompressed into the logical stream; main takes
\* nodes[0].  A failure while or after the directory is read goes to
\* main's except branch.
ArchiveBlocks ==
    /\ pc = "blocks"
    /\ \/ /\ data' = main.logical
          /\ fs' = FileStream(Len(main.logical))
          /\ main' = [main EXCEPT !.nodes = main.dir, !.node = main.dir[1]]
          /\ pc' = "loop"
       \/ \E decoded \in {<<>>, main.dir} : Fallback(decoded)
    /\ UNCHANGED <<regVars, tt, desVars, out, auxVars>>

\* Mutant: the stream keeps the endian the previous serialized file set.
ResetEndian_Keep(f) == f

\* main, line 386: stream.endian = '>'
ResetEndian(f) == [f EXCEPT !.endian = ">"]

\* main, lines 381-387: the loop takes the next node of the directory
MainNode ==
    /\ pc = "loop"
    /\ main.nodes # <<>>
    /\ main.k < Len(main.nodes)
    /\ \E node \in {At(main.nodes, main.k)} :
          IF node.flags = SerializedFileFlag
          THEN /\ fs' = ResetEndian(fs)
               /\ main' = [main EXCEPT !.node = node]
               /\ pc' = "sf_header"
          ELSE /\ main' = [main EXCEPT !.node = node, !.k = @ + 1]
               /\ UNCHANGED <<pc, fs>>
    /\ UNCHANGED <<regVars, data, tt, desVars, out, auxVars>>

\* main, lines 391-393: no directory, the file is one serialized file
MainPlain ==
    /\ pc = "loop"
    /\ main.nodes = <<>>
    /\ ~main.plain
    /\ main' = [main EXCEPT !.plain = TRUE]
    /\ pc' = "sf_header"
    /\ UNCHANGED <<regVars, streamVars, tt, desVars, out, auxVars>>

\* SerializedFile.decode, lines 284-293: the header up to the switch of
\* the stream's endian: [fs, header, err]
SerializedHeaderDecode(f, d, node) ==
    Let(ReadMany(FsSeek(f, node.offset), d, <<"s32", "s32">>), LAMBDA a :
      IF a.err \/ node.size # a.vals[2]
      THEN [fs |-> a.fs, header |-> NoMainState.header, err |-> TRUE]
      ELSE Let(ReadMany(a.fs, d, <<"s32", "s32", "bool">>), LAMBDA b :
        IF b.err
        THEN [fs |-> b.fs, header |-> NoMainState.header, err |-> TRUE]
        ELSE Let(FsRead(b.fs, 3), LAMBDA c :
          IF c.err
          THEN [fs |-> c.fs, header |-> NoMainState.header, err |-> TRUE]
          ELSE [fs |-> [c.fs EXCEPT !.endian = EndianOf(b.vals[3])],
                err |-> FALSE,
                header |-> [metadata_size |-> a.vals[1],
                            file_size |-> a.vals[2],
                            version |-> b.vals[1],
                            data_offset |-> b.vals[2],
                            endianess |-> b.vals[3]]])))

SerializedHeader ==
    /\ pc = "sf_header"
    /\ \E r \in {SerializedHeaderDecode(fs, data, main.node)} :
          /\ fs' = r.fs
          /\ IF r.err THEN pc' = "error" /\ UNCHANGED main
             ELSE /\ pc' = "sf_body"
                  /\ main' = [main EXCEPT !.header = r.header]
    /\ UNCHANGED <<regVars, data, tt, desVars, out, auxVars>>

\* SerializedFile.decode, lines 295-343 for a file without type trees,
\* objects, script types and externals: [fs, platform, err]
SerializedBodyDecode(f, d) ==
    Let(ReadString(f, d), LAMBDA v :
      IF v.err THEN [fs |-> v.fs, platform |-> 0, counts |-> <<>>, err |-> TRUE]
      ELSE Let(ReadMany(v.fs, d, <<"u32", "bool", "u32", "s32", "s32", "s32">>),
               LAMBDA r :
        IF r.err
        THEN [fs |-> r.fs, platform |-> 0, counts |-> <<>>, err |-> TRUE]
        ELSE Let(ReadString(r.fs, d), LAMBDA t :
               [fs |-> t.fs, platform |-> r.vals[1],
                counts |-> SubSeq(r.vals, 3, 6), err |-> t.err])))

\* the rest of SerializedFile.decode, then collect_mono_scripts and
\* processs, which find no type tree and no object
SerializedBody ==
    /\ pc = "sf_body"
    /\ \E r \in {SerializedBodyDecode(fs, data)} :
          /\ fs' = r.fs
          /\ IF r.err THEN pc' = "error" /\ UNCHANGED main
             ELSE /\ r.counts = <<0, 0, 0, 0>>
                  /\ main' = [main EXCEPT
                        !.platform = r.platform,
                        !.files = Append(@,
                            [offset |-> main.node.offset,
                             endianess |-> main.header.endianess,
                             platform |-> r.platform]),
                        !.k = IF main.plain THEN @ ELSE @ + 1]
                  /\ pc' = IF main.plain THEN "done" ELSE "loop"
    /\ UNCHANGED <<regVars, data, tt, desVars, out, auxVars>>

\* the loop over the nodes ends
MainEnd ==
    /\ pc = "loop"
    /\ main.nodes # <<>>
    /\ main.k >= Len(main.nodes)
    /\ pc' = "done"
    /\ UNCHANGED <<regVars, streamVars, tt, desVars, mainVars, auxVars>>

NextMain ==
    \/ ArchiveOpen \/ ArchiveBlocks \/ MainNode \/ MainPlain
    \/ SerializedHeader \/ SerializedBody \/ MainEnd

SpecMain == InitMain /\ [][NextMain]_vars

----------------------------------------------------------------------------
(* serialize.py: MetadataTypeTree.decode.  The header is read from the     *)
(* serialized file; the type tree is then decoded from the same stream     *)
(* when type_tree_enabled, and from the type cache file, if one exists,    *)
(* otherwise.                                                              *)

MONO_BEHAVIOUR_PERSISTENT_ID == 114

\* the header of MetadataTypeTree.decode, lines 62-68: [fs, th, err]
DecodeTypeHeader(f, d, t) ==
    Let(ReadMany(f, d, <<"s32", "bool", "s16">>), LAMBDA r :
      IF r.err THEN [fs |-> r.fs, th |-> t, err |-> TRUE]
      ELSE Let(IF r.vals[1] = MONO_BEHAVIOUR_PERSISTENT_ID
               THEN FsRead(r.fs, 16)
               ELSE [fs |-> r.fs, got |-> 0, err |-> FALSE], LAMBDA s :
        IF s.err THEN [fs |-> s.fs, th |-> t, err |-> TRUE]
        ELSE Let(FsRead(s.fs, 16), LAMBDA h :
          [fs |-> h.fs, err |-> h.err,
           th |-> [t EXCEPT
                     !.offset = f.position,
                     !.persistent_type_id = r.vals[1],
                     !.is_stripped_type = r.vals[2],
                     !.script_type_index = r.vals[3],
                     !.script_type_hash = Bytes(d, r.fs.position, s.got),
                     !.type_hash = Bytes(d, s.fs.position, h.got),
                     !.header_end = h.fs.position]])))

ScriptHash == [i \in 1..16 |-> i]

TypeHash == [i \in 1..16 |-> 16 + i]

\* the wire form of the header of a type in endian e
EncodeTypeHeader(id, e) ==
    Pack(id, 4, e) \o <<0>> \o Pack(0 - 1, 2, e)
    \o (IF id = MONO_BEHAVIOUR_PERSISTENT_ID THEN ScriptHash ELSE <<>>)
    \o TypeHash

TypeIds == {MONO_BEHAVIOUR_PERSISTENT_ID, 1}

\* the type-tree bodies that follow a header: no node, or a root named "A"
HeaderTrees(e) ==
    { EncodeTypeTree(TreeNodeList(k, [i \in 1..k |-> 0]), cc,
                     IF cc = 0 THEN <<>> ELSE <<65, 0>>, e) :
        k \in 0..1, cc \in {0, 2} }

\* the file holds the first n bytes of: padding, header, type-tree body
InitTypeHeader ==
    /\ pc = "th_header"
    /\ \E e \in Endians, id \in TypeIds, pad \in {0, 3}, enabled \in BOOLEAN,
          ce \in Endians, cid \in TypeIds, exists \in BOOLEAN :
          \E full \in {[i \in 1..pad |-> 0] \o EncodeTypeHeader(id, e) \o tree :
                         tree \in IF enabled THEN HeaderTrees(e)
                                  ELSE {<<>>}},
             ctree \in HeaderTrees(ce) :
             \E n \in pad..Len(full) :
                /\ data = SubSeq(full, 1, n)
                /\ fs = FsSeek([FileStream(n) EXCEPT !.endian = e], pad)
                /\ th = [NoTypeHeader EXCEPT
                           !.enabled = enabled,
                           !.cache_exists = exists /\ ~enabled,
                           !.cache = IF exists /\ ~enabled
                                     THEN EncodeTypeHeader(cid, ce) \o ctree
                                     ELSE <<>>]
    /\ nodes = <<>>
    /\ tt = NoTypeTreeDecode
    /\ ri = 0 /\ walker = <<>> /\ cursor = None /\ type_dict = {}
    /\ NoDeserialize
    /\ NoMain
    /\ ar = NoArchive

\* MetadataTypeTree.decode, lines 62-72
TypeHeader ==
    /\ pc = "th_header"
    /\ \E r \in {DecodeTypeHeader(fs, data, th)} :
          /\ fs' = r.fs
          /\ th' = r.th
          /\ pc' = IF r.err THEN "error"
                   ELSE IF th.enabled THEN "tt_counts" ELSE "th_cache"
    /\ UNCHANGED <<regVars, data, tt, desVars, mainVars, ar>>

\* MetadataTypeTree.decode, lines 73-83: the type cache file, read
\* little-endian from the offset the header ended at
TypeCache ==
    /\ pc = "th_cache"
    /\ IF ~th.cache_exists
       THEN pc' = "th_returned" /\ UNCHANGED <<data, fs, th>>
       ELSE \E r \in {ReadTyped([FileStream(Len(th.cache))
                                   EXCEPT !.endian = "<"], th.cache, "s32")} :
              /\ th' = [th EXCEPT !.handles = @ \cup {"type cache"}]
              /\ data' = th.cache
              /\ IF r.err \/ r.val # th.persistent_type_id
                 THEN pc' = "error" /\ fs' = r.fs
                 ELSE /\ pc' = "tt_counts"
                      /\ fs' = FsSeek(r.fs, fs.position - th.offset)
    /\ UNCHANGED <<regVars, tt, desVars, mainVars, ar>>

NextTypeHeader == TypeHeader \/ TypeCache \/ NextTypeTree

SpecTypeHeader == InitTypeHeader /\ [][NextTypeHeader]_vars

----------------------------------------------------------------------------
(* serialize.py: the type cache round trip.  SerializedFile.decode decodes *)
(* a type with its inline tree and writes the type's bytes to the cache;   *)
(* a second file without type trees declares the same type and             *)
(* MetadataTypeTree.decode reads the tree back from the cache.             *)

\* the type-tree bodies of the first file: those of HeaderTrees, and a root
\* `A` with one field of 4 bytes that carries the alignment flag
CachedTrees(e) ==
    HeaderTrees(e)
    \cup { EncodeTypeTree(<<TreeField(1, 0),
                            [TreeField(2, 1) EXCEPT !.byte_size = 4,
                                                    !.meta_flags = AlignFlag]>>,
                          2, <<65, 0>>, e) }

\* the first file: a complete type with its inline tree, type_tree_enabled
InitTypeCache ==
    /\ pc = "th_header"
    /\ \E e \in Endians, id \in TypeIds, pad \in {0, 3} :
          \E tree \in CachedTrees(e) :
             /\ data = [i \in 1..pad |-> 0] \o EncodeTypeHeader(id, e) \o tree
             /\ fs = FsSeek([FileStream(Len(data)) EXCEPT !.endian = e], pad)
    /\ th = [NoTypeHeader EXCEPT !.enabled = TRUE]
    /\ nodes = <<>>
    /\ tt = NoTypeTreeDecode
    /\ ri = 0 /\ walker = <<>> /\ cursor = None /\ type_dict = {}
    /\ NoDeserialize
    /\ NoMain
    /\ ar = NoArchive

\* SerializedFile.decode, lines 306-313: the bytes of the type, from its
\* offset to the position decode left, are written to the cache file (inside
\* a with block) and the tree is appended to type_trees
CacheWrite ==
    /\ pc = "tt_decoded"
    /\ th.enabled
    /\ \E r \in {FsRead(FsSeek(fs, th.offset), fs.position - th.offset)} :
          /\ fs' = r.fs
          /\ IF r.err
             THEN pc' = "error" /\ UNCHANGED <<th, type_trees>>
             ELSE /\ pc' = "cached"
                  /\ th' = [th EXCEPT !.cache = Bytes(data, th.offset, r.got),
                                      !.cache_exists = TRUE]
                  /\ type_trees' = Append(type_trees, TypeTree(nodes))
    /\ UNCHANGED <<regVars, data, tt, stack, last, ret, run, mainVars, ar>>

\* SerializedFile.decode, lines 304-305, for a second file with
\* type_tree_enabled false whose type has the same persistent_type_id and
\* type_hash: a new MetadataTypeTree is about to decode
CacheLookup ==
    /\ pc = "cached"
    /\ \E e \in Endians, pad \in {0, 3} :
          /\ data' = [i \in 1..pad |-> 0]
                        \o EncodeTypeHeader(th.persistent_type_id, e)
          /\ fs' = FsSeek([FileStream(Len(data')) EXCEPT !.endian = e], pad)
    /\ th' = [NoTypeHeader EXCEPT !.cache = th.cache, !.cache_exists = TRUE]
    /\ nodes' = <<>>
    /\ tt' = NoTypeTreeDecode
    /\ pc' = "th_header"
    /\ UNCHANGED <<ri, walker, cursor, type_dict, desVars, mainVars, ar>>

NextTypeCache ==
    TypeHeader \/ TypeCache \/ CacheWrite \/ CacheLookup \/ NextTypeTree

SpecTypeCache == InitTypeCache /\ [][NextTypeCache]_vars

----------------------------------------------------------------------------
(* unity.py: UnityArchiveFile.decode, byte by byte.  lz4.block.decompress  *)
(* is modelled for blocks that consist of one run of literals, which is    *)
(* how LZ4 stores a payload of fewer than 15 bytes without matches.        *)

CompressTypeMask == 63

BlocksAndDirectoryInfoCombined == 64

BlocksInfoAtTheEnd == 128

\* flags & bit != 0, for a bit that is a power of two
HasFlag(flags, bit) == (flags \div bit) % 2 = 1

\* CompressionType(flags & mask): the enum has the values 0..4
CompressionType(flags) ==
    [value |-> flags % (CompressTypeMask + 1),
     err |-> flags % (CompressTypeMask + 1) > 4]

\* an LZ4 block holding the payload as one run of literals
Compress(payload) == <<16 * Len(payload)>> \o payload

\* lz4.block.decompress(blob, uncompressed_size): [out, err]; it fails on a
\* malformed block and on one whose output exceeds uncompressed_size
Decompress(blob, uncompressed_size) ==
    IF \/ blob = <<>>
       \/ blob[1] % 16 # 0
       \/ Len(blob) # 1 + blob[1] \div 16
       \/ blob[1] \div 16 > uncompressed_size
    THEN [out |-> <<>>, err |-> TRUE]
    ELSE [out |-> Tail(blob), err |-> FALSE]

\* StorageBlock.decode and the loop of BlocksInfo.decode: [fs, blocks, err]
RECURSIVE DecodeStorageBlocks(_, _, _, _)
DecodeStorageBlocks(f, d, count, blocks) ==
    IF count <= 0 THEN [fs |-> f, blocks |-> blocks, err |-> FALSE]
    ELSE Let(ReadMany(f, d, <<"u32", "u32", "u16">>), LAMBDA r :
           IF r.err THEN [fs |-> r.fs, blocks |-> blocks, err |-> TRUE]
           ELSE DecodeStorageBlocks(r.fs, d, count - 1,
                    Append(blocks, [uncompressed_size |-> r.vals[1],
                                    compressed_size |-> r.vals[2],
                                    flags |-> r.vals[3]])))

\* BlocksInfo.decode: [fs, blocks, err]
DecodeBlocksInfo(f, d) ==
    Let(FsRead(f, 16), LAMBDA h :
      IF h.err THEN [fs |-> h.fs, blocks |-> <<>>, err |-> TRUE]
      ELSE Let(ReadTyped(h.fs, d, "u32"), LAMBDA c :
        IF c.err THEN [fs |-> c.fs, blocks |-> <<>>, err |-> TRUE]
        ELSE DecodeStorageBlocks(c.fs, d, c.val, <<>>)))

\* FileNode.decode and the loop of DirectoryInfo.decode: [fs, nodes, err]
RECURSIVE DecodeFileNodes(_, _, _, _)
DecodeFileNodes(f, d, count, ns) ==
    IF count <= 0 THEN [fs |-> f, nodes |-> ns, err |-> FALSE]
    ELSE Let(ReadMany(f, d, <<"u64", "u64", "u32">>), LAMBDA r :
           IF r.err THEN [fs |-> r.fs, nodes |-> ns, err |-> TRUE]
           ELSE Let(ReadString(r.fs, d), LAMBDA path :
             IF path.err THEN [fs |-> path.fs, nodes |-> ns, err |-> TRUE]
             ELSE DecodeFileNodes(path.fs, d, count - 1,
                      Append(ns, [offset |-> r.vals[1], size |-> r.vals[2],
                                  flags |-> r.vals[3]]))))

\* DirectoryInfo.decode: [fs, nodes, err]
DecodeDirectory(f, d) ==
    Let(ReadTyped(f, d, "u32"), LAMBDA c :
      IF c.err THEN [fs |-> c.fs, nodes |-> <<>>, err |-> TRUE]
      ELSE DecodeFileNodes(c.fs, d, c.val, <<>>))

\* UnityArchiveFile.read_blocks_and_directory: [fs, blocks, nodes, err]
ReadBlocksAndDirectory(f, d, header) ==
    Let(DecodeBlocksInfo(f, d), LAMBDA b :
      IF b.err
      THEN [fs |-> b.fs, blocks |-> b.blocks, nodes |-> <<>>, err |-> TRUE]
      ELSE IF HasFlag(header.flags, BlocksAndDirectoryInfoCombined)
      THEN Let(DecodeDirectory(b.fs, d), LAMBDA n :
             [fs |-> n.fs, blocks |-> b.blocks, nodes |-> n.nodes,
              err |-> n.err])
      ELSE [fs |-> b.fs, blocks |-> b.blocks, nodes |-> <<>>,
            err |-> FALSE])

\* ArchiveStorageHeader.get_blocks_info_offset for the signature UnityFS;
\* None stands for UINT64_MAX
BlocksInfoOffset(header) ==
    IF HasFlag(header.flags, BlocksInfoAtTheEnd)
    THEN IF header.size # 0
         THEN header.size - header.compressed_blocks_info_size
         ELSE None
    ELSE header.header_size

\* UnityArchiveFile.decode, lines 189-201: [fs, blocks, nodes, decompressed,
\* err]; fs is the stream of the archive file
BlocksInfoDecode(f, d, header) ==
    LET offset == BlocksInfoOffset(header)
        failed(g, n) == [fs |-> g, blocks |-> <<>>, nodes |-> <<>>,
                         decompressed |-> n, err |-> TRUE]
    IN  IF offset < 0 \/ CompressionType(header.flags).err
        THEN failed(f, 0)
        ELSE IF CompressionType(header.flags).value # 0
        THEN Let(FsRead(FsSeek(f, offset),
                        header.compressed_blocks_info_size), LAMBDA c :
               IF c.err \/ c.got # header.compressed_blocks_info_size
               THEN failed(c.fs, 0)
               ELSE Let(Decompress(Bytes(d, offset, c.got),
                            header.uncompressed_blocks_info_size), LAMBDA u :
                 IF u.err THEN failed(c.fs, 1)
                 ELSE Let(ReadBlocksAndDirectory(FileStream(Len(u.out)),
                                                 u.out, header), LAMBDA r :
                        [fs |-> c.fs, blocks |-> r.blocks, nodes |-> r.nodes,
                         decompressed |-> 1, err |-> r.err])))
        ELSE IF header.compressed_blocks_info_size
                    # header.uncompressed_blocks_info_size
        THEN failed(FsSeek(f, offset), 0)
        ELSE Let(ReadBlocksAndDirectory(FsSeek(f, offset), d, header),
                 LAMBDA r :
                   [fs |-> r.fs, blocks |-> r.blocks, nodes |-> r.nodes,
                    decompressed |-> 0, err |-> r.err])

\* UnityArchiveFile.decode, lines 204-212, for one block: [fs, out,
\* decompressed, err]
BlockDecode(f, d, block) ==
    IF CompressionType(block.flags).err
    THEN [fs |-> f, out |-> <<>>, decompressed |-> 0, err |-> TRUE]
    ELSE IF CompressionType(block.flags).value # 0
    THEN Let(FsRead(f, block.compressed_size), LAMBDA c :
           IF c.err
           THEN [fs |-> c.fs, out |-> <<>>, decompressed |-> 0, err |-> TRUE]
           ELSE Let(Decompress(Bytes(d, f.position, c.got),
                               block.uncompressed_size), LAMBDA u :
                  [fs |-> c.fs, out |-> u.out, decompressed |-> 1,
                   err |-> u.err \/ Len(u.out) # block.uncompressed_size]))
    ELSE Let(FsRead(f, block.uncompressed_size), LAMBDA c :
           [fs |-> c.fs, out |-> Bytes(d, f.position, c.got),
            decompressed |-> 0, err |-> c.err])

----------------------------------------------------------------------------
(* Archive files given to UnityArchiveFile.decode *)

\* the wire form of an archive header (big-endian)
EncodeArchive(signature, version, size, cbis, ubis, flags) ==
    CStr(signature) \o Pack(version, 4, ">") \o <<0>> \o <<0>>
    \o Pack(size, 8, ">") \o Pack(cbis, 4, ">") \o Pack(ubis, 4, ">")
    \o Pack(flags, 4, ">")

LZ4 == 2

\* a block of the input: its payload, whether it is stored compressed, and
\* by how much the declared uncompressed_size exceeds the payload
BlockInputs ==
    [n : {2}, compressed : BOOLEAN, excess : {0, 1}]
    \cup [n : {0}, compressed : BOOLEAN, excess : {0}]

Payload(b) == [i \in 1..b.n |-> 7]

BlockBytes(b) == IF b.compressed THEN Compress(Payload(b)) ELSE Payload(b)

RECURSIVE EncodeBlockTable(_)
EncodeBlockTable(bs) ==
    IF bs = <<>> THEN <<>>
    ELSE Pack(Head(bs).n + Head(bs).excess, 4, ">")
         \o Pack(Len(BlockBytes(Head(bs))), 4, ">")
         \o Pack(IF Head(bs).compressed THEN LZ4 ELSE 0, 2, ">")
         \o EncodeBlockTable(Tail(bs))

RECURSIVE EncodeBlockData(_)
EncodeBlockData(bs) ==
    IF bs = <<>> THEN <<>>
    ELSE BlockBytes(Head(bs)) \o EncodeBlockData(Tail(bs))

\* the blocks info, with a directory of one serialized file when combined
EncodeBlocksInfo(bs, combined) ==
    [i \in 1..16 |-> 9] \o Pack(Len(bs), 4, ">") \o EncodeBlockTable(bs)
    \o (IF combined
        THEN Pack(1, 4, ">") \o Pack(0, 8, ">") \o Pack(4, 8, ">")
             \o Pack(SerializedFileFlag, 4, ">") \o CStr(<<65>>)
        ELSE <<>>)

Heads ==
    { [signature |-> UnityFS, version |-> 6],
      [signature |-> UnityFS, version |-> 5],
      [signature |-> <<85>>, version |-> 6],
      [signature |-> <<>>, version |-> 6] }

\* the archive file made of the head h, the blocks bs, blocks info stored
\* with compression type c and declared `slack` bytes larger than it is,
\* with or without a directory, before or after the data blocks
ArchiveFile(h, bs, c, slack, combined, at_end) ==
    LET plain == EncodeBlocksInfo(bs, combined)
        info == IF c = 0 THEN plain ELSE Compress(plain)
        blocks == EncodeBlockData(bs)
        flags == c + (IF combined THEN BlocksAndDirectoryInfoCombined ELSE 0)
                   + (IF at_end THEN BlocksInfoAtTheEnd ELSE 0)
        header(size) == EncodeArchive(h.signature, h.version, size,
                                      Len(info), Len(plain) + slack, flags)
        total == Len(header(0)) + Len(info) + Len(blocks)
    IN  header(total) \o (IF at_end THEN blocks \o info ELSE info \o blocks)

InitArchive ==
    /\ pc = "ar_open"
    /\ \E k \in 0..MaxBlocks :
         \E bs \in [1..k -> BlockInputs], h \in Heads, c \in {0, LZ4},
            slack \in {0, 2}, combined \in BOOLEAN, at_end \in BOOLEAN,
            cut \in 0..1, exists \in BOOLEAN :
            \E file \in {ArchiveFile(h, bs, c, slack, combined, at_end)} :
               /\ data = IF exists THEN SubSeq(file, 1, Len(file) - cut)
                         ELSE <<>>
               /\ ar = [NoArchive EXCEPT
                          !.handles = IF exists THEN {"archive"} ELSE {},
                          !.input = [signature |-> h.signature,
                                     version |-> h.version,
                                     compression |-> c,
                                     wellformed |->
                                        /\ exists /\ cut = 0 /\ ~at_end
                                        /\ h = [signature |-> UnityFS,
                                                version |-> 6]
                                        /\ slack = (IF c = 0 THEN 0 ELSE 2)
                                        /\ \A i \in 1..k :
                                              bs[i].excess = 0 /\ bs[i].n > 0]]
    /\ fs = FileStream(Len(data))
    /\ nodes = <<>> /\ ri = 0 /\ walker = <<>> /\ cursor = None
    /\ type_dict = {} /\ tt = NoTypeTreeDecode
    /\ NoDeserialize
    /\ NoMain
    /\ th = NoTypeHeader

\* UnityArchiveFile.decode, lines 186-188: the file is opened and the
\* header decoded; FileStream.open leaves the stream empty when the file does
\* not exist
ArchiveDecodeOpen ==
    /\ pc = "ar_open"
    /\ \E r \in {ArchiveHeaderDecode(fs, data)} :
          /\ fs' = r.fs
          /\ IF r.err THEN pc' = "ar_failed" /\ UNCHANGED ar
             ELSE /\ pc' = "ar_blocks_info"
                  /\ ar' = [ar EXCEPT !.header = r.header]
    /\ UNCHANGED <<regVars, data, tt, desVars, mainVars, th>>

\* UnityArchiveFile.decode, lines 189-201
ArchiveBlocksInfo ==
    /\ pc = "ar_blocks_info"
    /\ \E r \in {BlocksInfoDecode(fs, data, ar.header)} :
          /\ fs' = r.fs
          /\ ar' = [ar EXCEPT !.blocks = r.blocks, !.nodes = r.nodes,
                              !.decompressed = @ + r.decompressed]
          /\ pc' = IF r.err THEN "ar_failed" ELSE "ar_blocks"
    /\ UNCHANGED <<regVars, data, tt, desVars, mainVars, th>>

\* UnityArchiveFile.decode, lines 204-212: one iteration of the loop
ArchiveBlock ==
    /\ pc = "ar_blocks"
    /\ ar.k < Len(ar.blocks)
    /\ \E r \in {BlockDecode(fs, data, At(ar.blocks, ar.k))} :
          /\ fs' = r.fs
          /\ IF r.err
             THEN /\ pc' = "ar_failed"
                  /\ ar' = [ar EXCEPT !.decompressed = @ + r.decompressed]
             ELSE /\ pc' = "ar_blocks"
                  /\ ar' = [ar EXCEPT !.k = @ + 1,
                                      !.buffer = @ \o r.out,
                                      !.decompressed = @ + r.decompressed]
    /\ UNCHANGED <<regVars, data, tt, desVars, mainVars, th>>

\* UnityArchiveFile.decode, lines 213-218: the assertion on the position,
\* data.bin written inside a with block, the logical stream returned
ArchiveReturn ==
    /\ pc = "ar_blocks"
    /\ ar.k >= Len(ar.blocks)
    /\ pc' = IF fs.position = fs.length THEN "ar_returned" ELSE "ar_failed"
    /\ UNCHANGED <<regVars, streamVars, tt, desVars, mainVars, auxVars>>

\* after the call the garbage collector may finalise the file object,
\* which closes the file; nothing in decode closes it
ArchiveCollect ==
    /\ pc \in {"ar_returned", "ar_failed"}
    /\ ar.handles # {}
    /\ ar' = [ar EXCEPT !.handles = {}]
    /\ UNCHANGED <<pc, regVars, streamVars, tt, desVars, mainVars, th>>

NextArchive ==
    \/ ArchiveDecodeOpen \/ ArchiveBlocksInfo \/ ArchiveBlock
    \/ ArchiveReturn \/ ArchiveCollect

SpecArchive == InitArchive /\ [][NextArchive]_vars

----------------------------------------------------------------------------
(* Properties of the registrar *)

\* spec.md, "Depth well-formedness"
WellFormed(ns) ==
    /\ ns # <<>>
    /\ At(ns, 0).level = 0
    /\ \A i \in 1..(Len(ns) - 1) : At(ns, i).level <= At(ns, i - 1).level + 1

\* only the first field is at level 0
SingleRoot(ns) == \A i \in 1..(Len(ns) - 1) : At(ns, i).level >= 1

\* field i has a child
NonLeaf(ns, i) == i + 1 < Len(ns) /\ At(ns, i + 1).level > At(ns, i).level

\* field j is a direct child of field p
IsChild(ns, p, j) ==
    /\ j > p
    /\ At(ns, j).level = At(ns, p).level + 1
    /\ \A k \in (p + 1)..j : At(ns, k).level > At(ns, p).level

Positions(ns) == [i \in 1..Len(ns) |-> i - 1]

DirectChildren(ns, p) == SelectSeq(Positions(ns), LAMBDA j : IsChild(ns, p, j))

NonLeafKeysPresent ==
    \A i \in 0..(Len(nodes) - 1) :
        NonLeaf(nodes, i) => DictHas(type_dict, At(nodes, i).index)

C4_DirectChildren ==
    WellFormed(nodes) =>
        /\ \A v \in type_dict :
              \E p \in 0..(Len(nodes) - 1) :
                  /\ v.name = At(nodes, p).type
                  /\ v.index = At(nodes, p).index
                  /\ v.fields = DirectChildren(nodes, p)
        /\ \A v, w \in type_dict :
              v # w => Range(v.fields) \cap Range(w.fields) = {}

\* a view with two children, one of which has a child of its own
C4_Witness ==
    /\ pc = "registered"
    /\ WellFormed(nodes)
    /\ \E v \in type_dict :
          /\ Len(v.fields) >= 2
          /\ \E j \in Range(v.fields) : NonLeaf(nodes, j)

----------------------------------------------------------------------------
(* Properties of the type-tree decoder *)

\* C5 as stated: after every successful inline decode fields[i].index = i
\* for every i in 0..node_count-1; a node list that violates this at any
\* position, position 0 included, is rejected.
\* (checked on decodes whose every string offset was read from the region)
C5_Original ==
    (pc = "tt_decoded" /\ Resolvable(nodes, tt.strings)) =>
        /\ Len(nodes) = tt.node_count
        /\ \A i \in 0..(Len(nodes) - 1) : At(nodes, i).index = i

\* the bytes from 1-based position i up to the next 0 byte
RECURSIVE UpToZero(_, _)
UpToZero(d, i) ==
    IF i > Len(d) \/ d[i] = 0 THEN <<>>
    ELSE <<d[i]>> \o UpToZero(d, i + 1)

StrLen(v) == IF v = NoneStr THEN 0 ELSE Len(v)

RECURSIVE InternedBytes(_)
InternedBytes(strings) ==
    IF strings = <<>> THEN 0
    ELSE StrLen(Head(strings).val) + 1 + InternedBytes(Tail(strings))

\* C6: after every successful inline decode with char_count > 0 the bytes
\* of the interned strings plus one terminator per string add up to
\* char_count exactly, each string is recorded at its byte offset from the
\* start of the region, and the strings end exactly at char_count bytes (a
\* region whose strings end anywhere else fails the decode).
C6_StringRegion ==
    (pc \in {"tt_resolve", "tt_decoded"} /\ tt.char_count > 0) =>
        /\ InternedBytes(tt.strings) = tt.char_count
        /\ \A i \in 1..Len(tt.strings) :
              LET e == tt.strings[i]
                  start == tt.string_offset + e.key + 1
              IN  /\ e.key = IF i = 1 THEN 0
                             ELSE tt.strings[i - 1].key
                                  + StrLen(tt.strings[i - 1].val) + 1
                  /\ e.val = DecodeUtf8(UpToZero(data, start))
                  /\ data[start + StrLen(e.val)] = 0
        /\ fs.position = tt.string_offset + tt.char_count
        /\ data[tt.string_offset + tt.char_count] = 0

\* a decode that interned an empty and a non-empty string
C6_Witness ==
    /\ pc = "tt_decoded"
    /\ tt.char_count > 0
    /\ \E i, j \in 1..Len(tt.strings) :
          tt.strings[i].val = NoneStr /\ tt.strings[j].val # NoneStr

----------------------------------------------------------------------------
(* Properties of the deserializer *)

\* the node of the field the last step finished
LastNode == At(At(type_trees, last.tree).nodes, last.node)

\* the value stored under that field's name
LastValue == DictValue(Last(stack).result, LastNode.name)

\* C1 (as stated): whenever an iteration of dump or of the save command has
\* deserialized an object and completed without error, the stream has moved
\* from the object's start position by exactly o.byte_size bytes.
C1_Original ==
    (pc = "loop" /\ run.completed)
        => fs.position - (run.base + run.o.byte_start) = run.o.byte_size

C18_Original ==
    last.kind = "string"
        => /\ LastValue.kind = "bytes"
           /\ LastValue.n = (IF last.count > 0 THEN last.count ELSE 0)
           /\ fs.position % 4 = 0

\* the class view of an int field x (meta_flags 0) followed by a float
\* field y (meta_flags 0x4000)
IntFloatTree ==
    TypeTree(Numbered(<<Field(0, FALSE, "Root", -1, 0),
                        Field(1, FALSE, "int", 4, 0),
                        Field(1, FALSE, "float", 4, AlignFlag)>>))

\* deserialize has returned {x, y} for that class view, x stored before y
IntFloatReturned ==
    /\ pc = "des_ret"
    /\ [t \in 1..Len(type_trees) |-> type_trees[t].nodes] = <<IntFloatTree.nodes>>
    /\ ret = MapVal(<<[key |-> 1, val |-> PrimVal], [key |-> 2, val |-> PrimVal]>>)

\* C19 (as stated): deserializing int x, float y (0x4000) from position
\* start returns {x, y} and leaves the stream at start + 12.
C19_Original ==
    (pc = "des_ret"
     /\ [t \in 1..Len(type_trees) |-> type_trees[t].nodes] = <<IntFloatTree.nodes>>)
        => /\ IntFloatReturned
           /\ fs.position = run.offset + 12

\* C19 (amended): deserializing int x, float y (0x4000) from position
\* start returns {x, y} and leaves the stream at start + 8 rounded up to a
\* multiple of 4, which is start + 8 when start is a multiple of 4.
C19_IntFloat ==
    (pc = "des_ret"
     /\ [t \in 1..Len(type_trees) |-> type_trees[t].nodes] = <<IntFloatTree.nodes>>)
        => /\ IntFloatReturned
           /\ fs.position = FsAlign(FsSeek(fs, run.offset + 8), 4).position
           /\ run.offset % 4 = 0 => fs.position = run.offset + 8

\* C19 witness: {x, y} was returned for a start of 1, and the alignment
\* after y moved the stream from 9 to 12.
C19_Witness ==
    /\ IntFloatReturned
    /\ run.offset = 1
    /\ fs.position = 12

\* C20: a field that is no array, no string and no primitive and has
\* byte_size 0 adds no key to the result, leaves the stream where it was,
\* and the loop goes on with the next field of the class view.
C20_ZeroSizeSkipped ==
    [][(last'.kind = "zero" /\ last' # last)
          => /\ fs' = fs
             /\ Len(stack') = Len(stack)
             /\ Last(stack').result = Last(stack).result
             /\ Last(stack').n = Last(stack).n + 1
             /\ pc' = "des"]_vars

\* C20 witness: the field after a zero-size field has just been decoded
\* and stored, and the zero-size field has no key in the result.
C20_Witness ==
    /\ pc = "des"
    /\ last.kind = "prim"
    /\ last.node = 2
    /\ At(At(type_trees, last.tree).nodes, 1).byte_size = 0
    /\ At(At(type_trees, last.tree).nodes, 1).level = 1
    /\ Len(stack) = 1
    /\ DictHasKey(Last(stack).result, 2)
    /\ ~DictHasKey(Last(stack).result, 1)

\* C2 (as stated): immediately after a primitive field with bit 0x4000 set,
\* after every string field and after every array field, whatever the
\* element count, the stream position is a multiple of 4.
C2_Original ==
    (\/ last.kind \in {"string", "array"}
     \/ (last.kind = "prim" /\ HasAlignFlag(LastNode)))
        => fs.position % 4 = 0

\* C9 (as stated): after an array field whose element descriptor has
\* byte_size 1, the record's data is a byte blob whose length is the count
\* that was read, and the stream is aligned to 4.
C9_Original ==
    (/\ last.kind = "array"
     /\ At(At(type_trees, last.tree).nodes, last.elem).byte_size = 1)
        => /\ LastValue.has
           /\ LastValue.data[1].kind = "bytes"
           /\ LastValue.data[1].n = last.count
           /\ fs.position % 4 = 0

----------------------------------------------------------------------------
(* Properties of the byte stream *)

\* the bytes between the position and the end of the stream
Remaining(f) == IF f.position >= f.length THEN 0 ELSE f.length - f.position

\* C8 (as stated): a read(n) on a stream without a read limit fails when
\* fewer than n bytes remain, never returns fewer than n bytes, and for
\* n >= 1 with n bytes remaining returns exactly n bytes and advances the
\* position by n.
C8_Original ==
    (out.op = "read" /\ out.before.read_limit = 0)
        => /\ Remaining(out.before) < out.n => out.err
           /\ ~out.err => Len(out.got) >= out.n
           /\ (out.n >= 1 /\ Remaining(out.before) >= out.n)
                 => /\ ~out.err
                    /\ Len(out.got) = out.n
                    /\ fs.position = out.before.position + out.n

----------------------------------------------------------------------------
(* Properties of main *)

\* the numbers of the archive header are the bytes of the file taken in
\* endian e
ArchiveHeaderReadAs(e) ==
    main.archive.decoded
        => /\ main.archive.version = Unpack(SubSeq(main.raw, 9, 12), e, TRUE)
           /\ main.archive.compressed_blocks_info_size
                 = Unpack(SubSeq(main.raw, 25, 28), e, FALSE)
           /\ main.archive.uncompressed_blocks_info_size
                 = Unpack(SubSeq(main.raw, 29, 32), e, FALSE)
           /\ main.archive.flags = Unpack(SubSeq(main.raw, 33, 36), e, FALSE)

\* the numbers of the serialized-file header just decoded are the bytes at
\* the node's offset taken in endian e
SerializedHeaderReadAs(e) ==
    pc = "sf_body"
        => /\ main.header.metadata_size
                 = Unpack(Bytes(data, main.node.offset, 4), e, TRUE)
           /\ main.header.file_size
                 = Unpack(Bytes(data, main.node.offset + 4, 4), e, TRUE)
           /\ main.header.version
                 = Unpack(Bytes(data, main.node.offset + 8, 4), e, TRUE)
           /\ main.header.data_offset
                 = Unpack(Bytes(data, main.node.offset + 12, 4), e, TRUE)

\* the platform of every serialized file decoded so far is its bytes taken
\* in the endian that the file's endianess byte declares
BodyReadAsDeclared ==
    \A i \in 1..Len(main.files) :
        main.files[i].platform
            = Unpack(Bytes(data, main.files[i].offset + 22, 4),
                     EndianOf(main.files[i].endianess), FALSE)

----------------------------------------------------------------------------
(* Properties of MetadataTypeTree.decode *)

\* decode has returned without an error, having read the serialized file
\* only
DecodeReturned == pc \in {"tt_decoded", "th_returned"} /\ th.handles = {}

\* C11 (as stated): when decode has returned, script_type_hash holds
\* 16 bytes exactly when persistent_type_id is 114, the header has consumed
\* 39 bytes for id 114 and 23 bytes for any other id, and type_hash is the
\* last 16 of those bytes.
C11_Original ==
    DecodeReturned
        => /\ (th.script_type_hash # <<>>)
                 <=> (th.persistent_type_id = MONO_BEHAVIOUR_PERSISTENT_ID)
           /\ th.header_end - th.offset
                 = (IF th.persistent_type_id = MONO_BEHAVIOUR_PERSISTENT_ID
                    THEN 39 ELSE 23)
           /\ Len(th.type_hash) = 16
           /\ th.type_hash = Bytes(data, th.header_end - 16, 16)

----------------------------------------------------------------------------
(* Properties of UnityArchiveFile.decode *)

RECURSIVE UncompressedTotal(_)
UncompressedTotal(blocks) ==
    IF blocks = <<>> THEN 0
    ELSE Head(blocks).uncompressed_size + UncompressedTotal(Tail(blocks))

HeaderBytes == Len(EncodeArchive(ar.input.signature, 0, 0, 0, 0, 0))

Rejected == ar.input.signature # UnityFS \/ ar.input.version = 5

\* C12: when decode returns, the logical stream it returns is exactly as
\* long as the uncompressed sizes of the storage blocks add up to.
C12_Original ==
    pc = "ar_returned" => Len(ar.buffer) = UncompressedTotal(ar.blocks)

\* C13: an archive whose signature is not UnityFS or whose version is 5 is
\* rejected while its header is decoded: decode fails with the position
\* inside the header, no blocks info read, nothing decompressed and no
\* logical stream produced.
C13_HeaderRejected ==
    Rejected
        => /\ pc \in {"ar_open", "ar_failed"}
           /\ ~ar.header.decoded
           /\ fs.position <= HeaderBytes
           /\ ar.blocks = <<>> /\ ar.nodes = <<>> /\ ar.k = 0
           /\ ar.decompressed = 0
           /\ ar.buffer = <<>>

\* C13 witness: a version 5 archive with the signature UnityFS has failed
\* right after its version was read.
C13_Witness ==
    /\ pc = "ar_failed"
    /\ ar.input.signature = UnityFS /\ ar.input.version = 5
    /\ fs.position = Len(CStr(UnityFS)) + 4
    /\ fs.length > HeaderBytes

\* C14: a complete archive whose blocks info is stored with compression
\* type NONE, the two sizes of the header being equal, is not rejected.
C14_Original ==
    (ar.input.wellformed /\ ar.input.compression = 0) => pc # "ar_failed"

\* C16: once decode has returned or failed, no file it opened is open.
C16_Original ==
    pc \in {"ar_returned", "ar_failed"} => ar.handles = {}

----------------------------------------------------------------------------
(* Properties of read_string *)

\* the stream holds a 0 byte at or after the position of f
Terminated(f) == \E i \in (f.position + 1)..Len(data) : data[i] = 0

\* the number of bytes up to and including the first 0 byte after the
\* position of f
TerminatorEnd(f) ==
    CHOOSE i \in (f.position + 1)..Len(data) :
        data[i] = 0 /\ \A j \in (f.position + 1)..(i - 1) : data[j] # 0

\* the bytes between the position of f and the first 0 byte
Prefix(f) == SubSeq(data, f.position + 1, TerminatorEnd(f) - 1)

ReadStringCalled ==
    out.op = "read_string" /\ out.before.read_limit = 0 /\ Terminated(out.before)

\* C17 (as stated): read_string() on a stream that holds a terminator at or
\* after the position leaves the position just past the first terminator
\* and returns the bytes before it as a string, the empty string when there
\* are none.
C17_Original ==
    ReadStringCalled
        => /\ ~out.err
           /\ fs.position = TerminatorEnd(out.before)
           /\ out.got = Prefix(out.before)

\* C17 (amended): read_string() on a stream that holds a terminator at or
\* after the position leaves the position just past the first terminator
\* and returns the bytes before it as a string when there are any, and None
\* when there are none.
C17_ReadString ==
    ReadStringCalled
        => /\ ~out.err
           /\ fs.position = TerminatorEnd(out.before)
           /\ Prefix(out.before) # <<>> => out.got = Prefix(out.before)
           /\ Prefix(out.before) = <<>> => out.got = NoneStr

\* C17 witness: read_string() was called at a terminator in the middle of
\* the stream, moved past it and returned None.
C17_Witness ==
    /\ ReadStringCalled
    /\ out.before.position > 0
    /\ fs.position = out.before.position + 1
    /\ out.got = NoneStr

----------------------------------------------------------------------------
(* Properties of the type cache *)

\* the second file's decode has ended, with a tree or with an error
Rehydration == Len(type_trees) = 1 /\ ~th.enabled /\ pc \in {"tt_decoded", "error"}

\* the nodes agree in every decoded attribute
SameNodes(a, b) ==
    /\ Len(a) = Len(b)
    /\ \A i \in 1..Len(a) :
          /\ a[i].level = b[i].level /\ a[i].is_array = b[i].is_array
          /\ a[i].type = b[i].type /\ a[i].name = b[i].name
          /\ a[i].byte_size = b[i].byte_size /\ a[i].index = b[i].index
          /\ a[i].meta_flags = b[i].meta_flags

\* C21: a type tree that was decoded inline and cached is rehydrated for a
\* file without type trees that declares the same type: the decode succeeds
\* and its node list equals the one decoded originally, whatever the
\* endianness of the file the tree was cached from.
C21_Original ==
    Rehydration
        => /\ pc = "tt_decoded"
           /\ SameNodes(nodes, type_trees[1].nodes)

----------------------------------------------------------------------------
(* Properties of the stream position under deserialize *)

\* C22: while deserialize runs and after it has returned or failed, the
\* stream position lies between 0 and the length of the stream, and no step
\* moves it backward.
C22_Original ==
    /\ [](0 <= fs.position /\ fs.position <= fs.length)
    /\ [][fs'.position >= fs.position]_vars

====
